---- MODULE Spec2Model ----
(***************************************************************************)
(* PiPyAWC: the priority job scheduler (AdvancedScheduler / AdvancedJob)   *)
(* and the sensor-driven step engine (Monitor, Dispenser, run_routine).    *)
(*                                                                         *)
(* Two specifications share the module:                                    *)
(*   Spec      the scheduler: job list, run_pending passes, job runs       *)
(*   SpecStep  the monitor, the dispenser's step loop and run_routine      *)
(* Each leaves the other's variables at their constructed values.          *)
(***************************************************************************)
EXTENDS Integers, Sequences, FiniteSets, TLC

\* ------------------------------------------------------------- bounds
MaxJobs == 2
MaxTime == 2
MaxInterval == 2
MaxPriority == 1
MaxRetries == 1

\* ------------------------------------------------ scheduler: the state
VARIABLES
    now,        \* datetime.datetime.now(), in whole time units
    jobs,       \* Scheduler.jobs: the list of scheduled job objects, in list order
    created,    \* how many job objects have been built
    inPass,     \* a run_pending() call is in progress
    pending,    \* run_pending: the sorted runnable jobs not yet run in this pass
    ran,        \* run_pending: (next_run, priority) of the jobs this pass has run
    last,       \* run_pending: the job run last in this pass, or NoRun
    lastRet     \* per job: what its job_func returned when last called

schedVars == <<now, jobs, created, inPass, pending, ran, last, lastRet>>

\* ---------------------------------------------- step engine: the state
VARIABLES
    cfg,            \* which sensor configuration the monitor was built from
    flags,          \* the steps' proceed_on_* / cancel_on_critical_failure flags
    value,          \* per sensor: the pin's logic level (1 submerged, 0 exposed)
    tank_states,    \* Monitor.tank_states: state -> sensor -> reported bool
    error_checks,   \* Monitor.error_checks: error sensor -> triggered
    remaining_runs, \* per error sensor: ErrorSensor.remaining_runs
    pumps,          \* per pump: the relay is on
    pc,             \* where run_routine is: idle, routine, loop, returned
    stepIdx,        \* run_routine: index of the current step in routine.steps
    errs,           \* _run_step: the list of error-check results
    run_time,       \* _run_step: time.time() - start_time
    step_ret,       \* run_routine: ret, what run_step returned for the current step
    job_ret,        \* what the last run_routine call returned
    turnedOn,       \* the current run_step call has called the pump's on()
    startState      \* monitor.tank_state as the current run_step call read it

\* -------------------------------------------- routine runs: the state
VARIABLES
    driver,         \* which code runs the routine: Controller.run_routine or Routine._run
    completion_contacts, \* routine.completion_contacts
    ticks,          \* _run_step: passes through the loop body made by the current call
    errors,         \* the routine run's fault lists, one per step (errors / self.errors)
    error_reports,  \* the routine run's queued error reports
    stop,           \* the routine run's stop flag
    notified        \* what became of the run's completion-or-failure notification

routineVars == <<driver, completion_contacts, ticks, errors, error_reports, stop, notified>>

stepVars == <<cfg, flags, value, tank_states, error_checks, remaining_runs, pumps,
              pc, stepIdx, errs, run_time, step_ret, job_ret, turnedOn, startState,
              routineVars>>

\* ------------------------------------- tags and priorities: the state
VARIABLES
    tags,           \* per job: Job.tags
    unscheduled,    \* the job every() returned that do() has not yet put into jobs
    query,          \* the tags of the last get_jobs_from_tags call
    found,          \* what the last get_jobs_from_tags call returned
    lastSet,        \* the last highest_priority / lowest_priority access
    raised          \* the last exception that left run_pending

jobVars == <<tags, unscheduled, query, found, lastSet>>

\* ------------------------------------------ remote commands: the state
VARIABLES
    reply           \* the last remote command: its arguments and what became of it

cmdVars == <<reply>>

\* --------------------------- callback and reader threads: the state
VARIABLES
    writer,         \* the notify_monitor call in progress in the callback thread
    reader          \* the tank_state read in progress in the main thread

threadVars == <<writer, reader>>

\* ---------------------------------- single calls in progress: the state
VARIABLES
    operands,       \* the jobs last compared with __lt__, and what it returned
    checking        \* the Monitor.check_error call in progress in the main thread

callVars == <<operands, checking>>

JobIds == 1..(MaxJobs + MaxRetries)

\* next_run of a job that was never scheduled (Python None)
NoneTime == -1

\* last, when the pass has run no job yet
NoRun == [id |-> 0, run_once |-> FALSE, ret |-> "", at |-> 0, before |-> ""]

Range(s) == {s[i] : i \in DOMAIN s}

\* list.remove(job): job objects compare by identity
Remove(s, id) == SelectSeq(s, LAMBDA y : y.id # id)

Ids(s) == {s[i].id : i \in DOMAIN s}

\* AdvancedJob.__lt__, as used by sorted() in run_pending; every job of an
\* AdvancedScheduler is an AdvancedJob, so the isinstance branch is the one taken
LtNoPriority(self, other) ==
    IF other.next_run = NoneTime /\ self.next_run = NoneTime THEN FALSE
    ELSE IF other.next_run = NoneTime /\ self.next_run # NoneTime THEN TRUE
    ELSE IF other.next_run # NoneTime /\ self.next_run = NoneTime THEN FALSE
    ELSE self.next_run < other.next_run

Lt(self, other) ==
    IF other.next_run = NoneTime /\ self.next_run = NoneTime THEN FALSE
    ELSE IF other.next_run = NoneTime /\ self.next_run # NoneTime THEN TRUE
    ELSE IF other.next_run # NoneTime /\ self.next_run = NoneTime THEN FALSE
    ELSE IF self.next_run # other.next_run THEN self.next_run < other.next_run
    ELSE self.priority < other.priority

\* sorted(): a stable sort that compares with __lt__ only (binary insertion sort
\* for short lists): x goes before the first element it is less than
RECURSIVE InsertSorted(_, _)
InsertSorted(x, s) ==
    IF s = <<>> THEN <<x>>
    ELSE IF Lt(x, Head(s)) THEN <<x>> \o s
    ELSE <<Head(s)>> \o InsertSorted(x, Tail(s))

RECURSIVE Sorted(_)
Sorted(s) ==
    IF s = <<>> THEN <<>>
    ELSE InsertSorted(s[Len(s)], Sorted(SubSeq(s, 1, Len(s) - 1)))

\* Time is counted in minutes: every().day has a period of one day and
\* every().<weekday> one of a week
Day == 1440

Week == 10080

\* The first time later than t that lies `at` minutes into its period
NextOccurrence(at, period, t) ==
    LET start == t - (t % period) IN
    IF at > t % period THEN start + at ELSE start + period + at

\* Job._schedule_next_run for a weekday job: the days from the weekday of t to
\* the next day with index wd (datetime.weekday(); time 0 is a Monday's
\* midnight)
DaysAhead(wd, t) ==
    LET d == wd - ((t \div Day) % 7) IN
    IF d <= 0 THEN d + 7 ELSE d

\* Job._schedule_next_run at time t: a job with at() (a record with at_time) is
\* due at the next occurrence of that time, a weekday job without at() on the
\* next such day, any other job one period after t
NextRunOf(j, t) ==
    IF "at_time" \in DOMAIN j
    THEN NextOccurrence(j.at_time, j.interval, t)
    ELSE IF "start_day" \in DOMAIN j
    THEN t + DaysAhead(j.start_day, t + j.interval) * Day
    ELSE t + j.interval

\* Job.should_run
ShouldRun(j) == j.next_run # NoneTime /\ now >= j.next_run

RoutineJobRetOnStop(stopped, cancel_on_critical_failure) ==
    IF stopped THEN "CancelJob" ELSE "None"

\* Controller.run_routine's return value: job_ret starts as None and becomes
\* CancelJob() when the loop stopped at a step with cancel_on_critical_failure
RoutineJobRet(stopped, cancel_on_critical_failure) ==
    IF stopped /\ cancel_on_critical_failure THEN "CancelJob" ELSE "None"

\* What a job's job_func can return: Controller.run_routine's job_ret (also what
\* notify and check_orders return: CancelJob() or None), or, for any other
\* callable, some other value
FuncReturns ==
    {RoutineJobRet(s, c) : s \in BOOLEAN, c \in BOOLEAN} \cup {"Value"}

\* AdvancedJob.run: the value handed to Scheduler._run_job
AdvancedJobRunKeepsRet(j, ret) == ret

AdvancedJobRunAlwaysCancels(j, ret) == "CancelJob"

AdvancedJobRunDropsRet(j, ret) == IF j.run_once THEN "CancelJob" ELSE "None"

AdvancedJobRun(j, ret) == IF j.run_once THEN "CancelJob" ELSE ret

\* ----------------------------------------------- scheduler: operations

SchedInit ==
    /\ now = 0
    /\ jobs = <<>>
    /\ created = 0
    /\ inPass = FALSE
    /\ pending = <<>>
    /\ ran = <<>>
    /\ last = NoRun
    /\ lastRet = [j \in JobIds |-> "never"]

\* The clock advances: the host loop sleeps between two passes, or, during a
\* pass, the job_func of the next job takes time (run_pending itself does not)
Tick ==
    /\ now < MaxTime
    /\ inPass => pending # <<>>
    /\ now' = now + 1
    /\ UNCHANGED <<jobs, created, inPass, pending, ran, last, lastRet>>
    /\ UNCHANGED <<stepVars, jobVars, raised, cmdVars, threadVars, callVars>>

\* scheduler.every(interval).<unit>.do(func), with priority and run_once set
\* before do() as register_routine, the run command and notify do
AddJob ==
    /\ ~inPass
    /\ created < MaxJobs
    /\ \E i \in 1..MaxInterval, p \in 0..MaxPriority, once \in BOOLEAN :
        /\ jobs' = Append(jobs, [id |-> created + 1, next_run |-> now + i,
                                 interval |-> i, priority |-> p, run_once |-> once])
        /\ created' = created + 1
    /\ UNCHANGED <<now, inPass, pending, ran, last, lastRet>>
    /\ UNCHANGED <<stepVars, jobVars, raised, cmdVars, threadVars, callVars>>

\* AdvancedJob.cancel, from the cancel command between two passes
Cancel ==
    /\ ~inPass
    /\ \E i \in DOMAIN jobs :
        /\ jobs[i].next_run # NoneTime
        /\ jobs' = Remove(jobs, jobs[i].id)
    /\ UNCHANGED <<now, created, inPass, pending, ran, last, lastRet>>
    /\ UNCHANGED <<stepVars, jobVars, raised, cmdVars, threadVars, callVars>>

\* Scheduler.run_pending, up to its loop: the runnable jobs, sorted
RunPending ==
    /\ ~inPass
    /\ inPass' = TRUE
    /\ pending' = Sorted(SelectSeq(jobs, ShouldRun))
    /\ ran' = <<>>
    /\ UNCHANGED <<now, jobs, created, last, lastRet>>
    /\ UNCHANGED <<stepVars, jobVars, raised, cmdVars, threadVars, callVars>>

\* One iteration of run_pending's loop: Scheduler._run_job on the next job.
\* Job.run calls job_func and reschedules the job; AdvancedJob.run decides the
\* value; _run_job cancels the job on a CancelJob
RunJob ==
    /\ inPass
    /\ pending # <<>>
    /\ "notification" \notin DOMAIN Head(pending)
    /\ LET j == Head(pending) IN
       \E r \in FuncReturns :
        LET ret == AdvancedJobRun(j, r)
            rescheduled == [k \in DOMAIN jobs |->
                              IF jobs[k].id = j.id
                              THEN [jobs[k] EXCEPT !.next_run = NextRunOf(j, now)]
                              ELSE jobs[k]]
        IN
        /\ jobs' = IF ret = "CancelJob" THEN Remove(rescheduled, j.id) ELSE rescheduled
        /\ pending' = Tail(pending)
        /\ ran' = Append(ran, [next_run |-> j.next_run, priority |-> j.priority])
        /\ last' = [id |-> j.id, run_once |-> j.run_once, ret |-> r, at |-> now,
                    before |-> lastRet[j.id]]
        /\ lastRet' = [lastRet EXCEPT ![j.id] = r]
    /\ UNCHANGED <<now, created, inPass>>
    /\ UNCHANGED <<stepVars, jobVars, raised, cmdVars, threadVars, callVars>>

\* run_pending returns once its loop is through
RunPendingReturn ==
    /\ inPass
    /\ pending = <<>>
    /\ inPass' = FALSE
    /\ ran' = <<>>
    /\ last' = NoRun
    /\ UNCHANGED <<now, jobs, created, pending, lastRet>>
    /\ UNCHANGED <<stepVars, jobVars, raised, cmdVars, threadVars, callVars>>

\* -------------------------------------- tags and priorities: operations

\* bounds
MaxQuery == 2
MaxShift == 2

\* Tag strings: a routine's name and 'Repeating', as register_routine tags its
\* job; random_tag's string may be any
Tags == {"ato", "Repeating"}

\* The tag lists the pause and cancel commands pass: nargs '+', so not empty
Queries == UNION {[1..n -> Tags] : n \in 1..MaxQuery}

\* unscheduled, when every() has returned no job that still awaits do()
NoJob == [id |-> 0, interval |-> 0, priority |-> 0]

\* lastSet, before any highest_priority / lowest_priority access
NoSet == [op |-> "none", id |-> 0, raised |-> FALSE, priority |-> 0,
          jobs |-> <<>>, unscheduled |-> NoJob]

\* found, before any get_jobs_from_tags call
NoneFound == [kind |-> "none", jobs |-> {}]

\* raised, while no exception has left run_pending
NoRaise == [id |-> 0, skipped |-> {}]

\* reply, while no remote command has been processed
NoReply == [n |-> 0, cmd |-> "none", args |-> <<>>, result |-> "none"]

\* Scheduler.get_jobs(tag), as a set: the jobs of the scheduler that hold tag
GetJobs(tag) == {jobs[i].id : i \in {k \in DOMAIN jobs : tag \in tags[jobs[k].id]}}

\* jobs[0].union(*jobs[1:])
RECURSIVE UnionAll(_)
UnionAll(sets) ==
    IF Len(sets) = 1 THEN sets[1]
    ELSE sets[1] \cup UnionAll(Tail(sets))

\* jobs[0].intersection(*jobs[1:])
RECURSIVE IntersectAll(_)
IntersectAll(sets) ==
    IF Len(sets) = 1 THEN sets[1]
    ELSE sets[1] \cap IntersectAll(Tail(sets))

GetJobsFromAnyTag(q) ==
    IF q = <<>> THEN [kind |-> "IndexError", jobs |-> {}]
    ELSE [kind |-> "list", jobs |-> UnionAll([i \in DOMAIN q |-> GetJobs(q[i])])]

\* AdvancedScheduler.get_jobs_from_tags: jobs[0] of an empty list raises
GetJobsFromTags(q) ==
    IF q = <<>> THEN [kind |-> "IndexError", jobs |-> {}]
    ELSE [kind |-> "list", jobs |-> IntersectAll([i \in DOMAIN q |-> GetJobs(q[i])])]

\* AdvancedJob.competing_jobs, as the list of their priorities
Priorities == [i \in DOMAIN jobs |-> jobs[i].priority]

\* min() and max() of a list that is not empty
Min(s) == CHOOSE x \in Range(s) : \A y \in Range(s) : x <= y

Max(s) == CHOOSE x \in Range(s) : \A y \in Range(s) : x >= y

\* AdvancedJob.highest_priority and lowest_priority: the priority they assign
HighestPriorityOf(s) == Min(s) - 1

LowestPriorityOfMax(s) == Max(s)

LowestPriorityOf(s) == Max(s) + 1

\* The jobs that exist: those of the scheduler and the one awaiting do()
Existing == Ids(jobs) \cup (IF unscheduled = NoJob THEN {} ELSE {unscheduled.id})

PriorityOf(id) ==
    IF unscheduled # NoJob /\ unscheduled.id = id THEN unscheduled.priority
    ELSE LET i == CHOOSE k \in DOMAIN jobs : jobs[k].id = id IN jobs[i].priority

JobsInit ==
    /\ tags = [j \in JobIds |-> {}]
    /\ unscheduled = NoJob
    /\ query = <<>>
    /\ found = NoneFound
    /\ lastSet = NoSet
    /\ raised = NoRaise
    /\ reply = NoReply
    /\ operands = <<>>
    /\ checking = [pc |-> "idle"]

\* scheduler.every(1): a new AdvancedJob with priority 0 and a random tag
Every ==
    /\ unscheduled = NoJob
    /\ created < MaxJobs
    /\ \E t \in Tags :
        /\ unscheduled' = [id |-> created + 1, interval |-> 1, priority |-> 0]
        /\ tags' = [tags EXCEPT ![created + 1] = {t}]
    /\ created' = created + 1
    /\ UNCHANGED <<query, found, lastSet, raised, cmdVars, threadVars, callVars>>
    /\ UNCHANGED <<now, jobs, inPass, pending, ran, last, lastRet>>
    /\ UNCHANGED stepVars

\* job.priority = routine.priority, as register_routine does before do()
SetPriority ==
    /\ unscheduled # NoJob
    /\ \E p \in 0..MaxPriority :
        unscheduled' = [unscheduled EXCEPT !.priority = p]
    /\ UNCHANGED <<tags, query, found, lastSet, raised, cmdVars, threadVars, callVars>>
    /\ UNCHANGED schedVars
    /\ UNCHANGED stepVars

\* job.do(func): the job is scheduled and appended to scheduler.jobs
Do ==
    /\ unscheduled # NoJob
    /\ jobs' = Append(jobs, [id |-> unscheduled.id,
                             next_run |-> now + unscheduled.interval,
                             interval |-> unscheduled.interval,
                             priority |-> unscheduled.priority,
                             run_once |-> FALSE])
    /\ unscheduled' = NoJob
    /\ UNCHANGED <<tags, query, found, lastSet, raised, cmdVars, threadVars, callVars>>
    /\ UNCHANGED <<now, created, inPass, pending, ran, last, lastRet>>
    /\ UNCHANGED stepVars

\* job.tag(t), before or after do()
Tag ==
    /\ \E id \in Existing, t \in Tags :
        /\ t \notin tags[id]
        /\ tags' = [tags EXCEPT ![id] = @ \cup {t}]
    /\ UNCHANGED <<unscheduled, query, found, lastSet, raised, cmdVars, threadVars, callVars>>
    /\ UNCHANGED schedVars
    /\ UNCHANGED stepVars

\* A pause or cancel command looks its jobs up by their tags
LookUp ==
    /\ \E q \in Queries :
        /\ query' = q
        /\ found' = GetJobsFromTags(q)
    /\ UNCHANGED <<tags, unscheduled, lastSet, raised, cmdVars, threadVars, callVars>>
    /\ UNCHANGED schedVars
    /\ UNCHANGED stepVars

\* The job with the given id gets priority p: self.priority = p
WithPriority(id, p) ==
    /\ IF unscheduled # NoJob /\ unscheduled.id = id
       THEN /\ unscheduled' = [unscheduled EXCEPT !.priority = p]
            /\ UNCHANGED jobs
       ELSE /\ jobs' = [i \in DOMAIN jobs |->
                          IF jobs[i].id = id THEN [jobs[i] EXCEPT !.priority = p]
                          ELSE jobs[i]]
            /\ UNCHANGED unscheduled

\* An access of job.highest_priority or job.lowest_priority; min() and max() of
\* an empty list raise ValueError
SetExtremePriority(op, id) ==
    /\ IF jobs = <<>>
       THEN /\ lastSet' = [op |-> op, id |-> id, raised |-> TRUE,
                           priority |-> PriorityOf(id),
                           jobs |-> jobs, unscheduled |-> unscheduled]
            /\ UNCHANGED <<jobs, unscheduled>>
       ELSE LET p == IF op = "highest_priority" THEN HighestPriorityOf(Priorities)
                     ELSE LowestPriorityOf(Priorities)
            IN
            /\ p >= -MaxShift
            /\ p <= MaxPriority + MaxShift
            /\ WithPriority(id, p)
            /\ lastSet' = [op |-> op, id |-> id, raised |-> FALSE, priority |-> p,
                           jobs |-> jobs', unscheduled |-> unscheduled']
    /\ UNCHANGED <<tags, query, found, raised, cmdVars, threadVars, callVars>>
    /\ UNCHANGED <<now, created, inPass, pending, ran, last, lastRet>>
    /\ UNCHANGED stepVars

HighestPriority == \E id \in Existing : SetExtremePriority("highest_priority", id)

LowestPriority == \E id \in Existing : SetExtremePriority("lowest_priority", id)

\* One iteration of run_pending's loop in which the job's job_func raises an
\* exception that nothing on the way catches: Job.run does not get to
\* rescheduling the job, the rest of the loop is not run, and the exception
\* leaves run_pending
RunJobRaises ==
    /\ inPass
    /\ pending # <<>>
    /\ raised' = [id |-> Head(pending).id, skipped |-> Ids(Tail(pending))]
    /\ lastRet' = [lastRet EXCEPT ![Head(pending).id] = "raised"]
    /\ inPass' = FALSE
    /\ pending' = <<>>
    /\ ran' = <<>>
    /\ last' = NoRun
    /\ UNCHANGED <<now, jobs, created>>
    /\ UNCHANGED jobVars
    /\ UNCHANGED stepVars
    /\ UNCHANGED cmdVars
    /\ UNCHANGED threadVars
    /\ UNCHANGED callVars

\* ------------------------------------------ step engine: configuration

\* bounds
PermittedRuns == 2

\* The time one pass through _run_step's loop takes, time.sleep(bounce_time)
\* and the checks: the unit in which run times are counted
BounceTime == 1

MaxStepTime == 2
MaxOverrun == 1
MaxBuffer == 1
MaxResults == 3

TankSensors == {"high", "low"}
ErrorSensors == {"rodi"}
Pumps == {"drain_pump", "fill_pump"}

\* Two sensor configurations. "levels": both sensors contribute to each of the
\* three levels. "overlap": full hangs on the high sensor alone and empty on the
\* low sensor alone, so both can be active at once
Configs == {"levels", "overlap"}

\* TankSensor.when_submerged
WhenSubmerged(c, name) ==
    IF c = "levels"
    THEN IF name = "high" THEN {"full"} ELSE {"full", "normal"}
    ELSE IF name = "high" THEN {"full"} ELSE {"normal"}

\* TankSensor.when_exposed
WhenExposed(c, name) ==
    IF c = "levels"
    THEN IF name = "high" THEN {"normal", "empty"} ELSE {"empty"}
    ELSE IF name = "high" THEN {"normal"} ELSE {"empty"}

\* ErrorSensor.trigger_when and ErrorSensor.permitted_runs
TriggerWhen(name) == "exposed"

PermittedRunsOf(name) == PermittedRuns

\* routine.steps: drain from full to normal, then refill from normal to full
\* while watching the reservoir sensor
Steps ==
    << [name |-> "drain", pump |-> "drain_pump", start_state |-> "full",
        end_state |-> "normal", error_checks |-> <<"rodi">>, max_time |-> MaxStepTime],
       [name |-> "fill", pump |-> "fill_pump", start_state |-> "normal",
        end_state |-> "full", error_checks |-> <<"rodi">>, max_time |-> MaxStepTime] >>

FlagNames == {"report_invalid_start", "proceed_on_invalid_start", "proceed_on_timeout",
              "proceed_on_error", "cancel_on_critical_failure"}

\* The Step dataclass's defaults
DefaultFlags ==
    [f \in FlagNames |-> f \in {"report_invalid_start", "cancel_on_critical_failure"}]

\* The two functions that run a routine's steps
Drivers == {"Controller.run_routine", "Routine._run"}

\* routine.completion_contacts: nobody, or one contact
ContactLists == {<<>>, <<"owner">>}

\* ------------------------------------------------ monitor: operations

\* dict[k] = v
Put(f, k, v) == [x \in DOMAIN f \cup {k} |-> IF x = k THEN v ELSE f[x]]

\* TankSensor._update_state_vals: set_true is written first, set_false last
UpdateStateVals(ts, name, set_true, set_false) ==
    [st \in DOMAIN ts |->
        IF st \in set_false THEN Put(ts[st], name, FALSE)
        ELSE IF st \in set_true THEN Put(ts[st], name, TRUE)
        ELSE ts[st]]

\* TankSensor.notify_monitor
TankSensorNotify(ts, c, name, v) ==
    IF v = 1 THEN UpdateStateVals(ts, name, WhenSubmerged(c, name), WhenExposed(c, name))
    ELSE IF v = 0 THEN UpdateStateVals(ts, name, WhenExposed(c, name), WhenSubmerged(c, name))
    ELSE ts

\* Monitor.register("tank", ...) for the high and then the low sensor: the
\* states' dicts are created empty and each sensor's notify_monitor fills them
Registered(c, v) ==
    LET none == [x \in {} |-> FALSE]
        s0 == [st \in WhenSubmerged(c, "high") \cup WhenExposed(c, "high") |-> none]
        s1 == TankSensorNotify(s0, c, "high", v["high"])
        s2 == [st \in DOMAIN s1 \cup WhenSubmerged(c, "low") \cup WhenExposed(c, "low") |->
                 IF st \in DOMAIN s1 THEN s1[st] ELSE none]
    IN TankSensorNotify(s2, c, "low", v["low"])

\* Monitor.tank_state
TankStateAnyActive(ts) ==
    LET state_reports == [st \in DOMAIN ts |-> \A s \in DOMAIN ts[st] : ts[st][s]]
        states == {st \in DOMAIN ts : state_reports[st]}
    IN IF Cardinality(states) >= 1 THEN CHOOSE st \in states : TRUE
       ELSE "CheckError"

TankState(ts) ==
    LET state_reports == [st \in DOMAIN ts |-> \A s \in DOMAIN ts[st] : ts[st][s]]
        states == {st \in DOMAIN ts : state_reports[st]}
    IN IF Cardinality(states) = 1 THEN CHOOSE st \in states : TRUE
       ELSE "CheckError"

\* ErrorSensor._update_status: the new error check and remaining_runs
UpdateStatusNoReset(name, state, remaining) ==
    IF state = TriggerWhen(name)
    THEN [error_check |-> TRUE, remaining_runs |-> remaining]
    ELSE [error_check |-> FALSE, remaining_runs |-> remaining]

UpdateStatus(name, state, remaining) ==
    IF state = TriggerWhen(name)
    THEN [error_check |-> TRUE, remaining_runs |-> remaining]
    ELSE [error_check |-> FALSE, remaining_runs |-> PermittedRunsOf(name)]

\* ErrorSensor.notify_monitor
Submersion(v) == IF v # 0 THEN "submerged" ELSE "exposed"

\* The results an error check puts into errs: False, or an exception object
NoError == [kind |-> "False"]

ErrorSensorTriggered(name, remaining) ==
    [kind |-> "ErrorSensorTriggered", name |-> name, remaining_runs |-> remaining]

PumpTimeoutErrorOmitted(pump, rt) == NoError

PumpTimeoutError(pump, rt) ==
    [kind |-> "PumpTimeoutError", pump |-> pump, run_time |-> rt]

InitialStateError(step, state) ==
    [kind |-> "InitialStateError", step |-> step, state |-> state]

\* bool(e): False is falsy, an exception object is truthy
Truthy(e) == e.kind # "False"

CheckErrorAlwaysDecrements(name, decrement, checks, rem) ==
    LET state == checks[name]
        remaining == IF state THEN rem[name] - 1 ELSE rem[name]
    IN [remaining_runs |-> [rem EXCEPT ![name] = remaining],
        result |-> IF state THEN ErrorSensorTriggered(name, remaining) ELSE NoError]

\* Monitor.check_error: the sensor's remaining_runs afterwards and the result
CheckErrorOf(name, decrement, checks, rem) ==
    LET state == checks[name]
        remaining == IF state /\ decrement THEN rem[name] - 1 ELSE rem[name]
    IN [remaining_runs |-> [rem EXCEPT ![name] = remaining],
        result |-> IF state THEN ErrorSensorTriggered(name, remaining) ELSE NoError]

\* --------------------------------------------- dispenser: operations

\* Pump.on() and Pump.off()
PumpOn(p, name) == [p EXCEPT ![name] = TRUE]

PumpLeftOn(p, name) == p

PumpOff(p, name) == [p EXCEPT ![name] = FALSE]

\* run_step's test of the start state; a CheckError equals no state name
StartStateMetOrUnknown(state, step) ==
    state = step.start_state \/ state = "CheckError"

StartStateMet(state, step) == state = step.start_state

\* _run_step's for loop over step.error_checks: each check is decremented only
\* if its previous result was falsy
RECURSIVE RunChecks(_, _, _, _)
RunChecks(checks, e, rem, i) ==
    IF i > Len(checks) THEN [errs |-> e, remaining_runs |-> rem]
    ELSE LET c == CheckErrorOf(checks[i], ~Truthy(e[i]), error_checks, rem)
         IN RunChecks(checks, [e EXCEPT ![i] = c.result], c.remaining_runs, i + 1)

\* _run_step's test for the time limit, made at the end of each pass
TimedOutLate(rt, max_time) == rt > max_time

TimedOut(rt, max_time) == rt >= max_time

\* _run_step's return value
StepReturn(rt, e) ==
    IF \E i \in DOMAIN e : Truthy(e[i])
    THEN [kind |-> "tuple", run_time |-> rt, errs |-> SelectSeq(e, Truthy)]
    ELSE [kind |-> "float", run_time |-> rt]

\* step_ret while no run_step call has returned
NoRet == [kind |-> "none"]

StopProceedsOnError(r, f) ==
    IF r.kind = "InitialStateError" THEN ~f["proceed_on_invalid_start"]
    ELSE IF r.kind = "tuple"
    THEN \E i \in DOMAIN r.errs :
            r.errs[i].kind = "PumpTimeoutError" /\ ~f["proceed_on_timeout"]
    ELSE FALSE

StopProceedsOnTimeout(r, f) ==
    IF r.kind = "InitialStateError" THEN ~f["proceed_on_invalid_start"]
    ELSE IF r.kind = "tuple"
    THEN \E i \in DOMAIN r.errs :
            /\ r.errs[i].kind = "ErrorSensorTriggered"
            /\ r.errs[i].remaining_runs <= 0
            /\ ~f["proceed_on_error"]
    ELSE FALSE

\* run_routine: whether the step's result sets stop
Stop(r, f) ==
    IF r.kind = "InitialStateError" THEN ~f["proceed_on_invalid_start"]
    ELSE IF r.kind = "tuple"
    THEN \E i \in DOMAIN r.errs :
            \/ r.errs[i].kind = "PumpTimeoutError" /\ ~f["proceed_on_timeout"]
            \/ /\ r.errs[i].kind = "ErrorSensorTriggered"
               /\ r.errs[i].remaining_runs <= 0
               /\ ~f["proceed_on_error"]
    ELSE FALSE

\* Controller.run_routine: the fault list it appends to errors for the step
Faults(r) == IF r.kind = "tuple" THEN r.errs ELSE <<>>

\* Controller.run_routine: the error reports it queues for the step
Reports(r, f) ==
    IF r.kind = "InitialStateError"
    THEN IF f["report_invalid_start"] THEN <<r>> ELSE <<>>
    ELSE IF r.kind = "tuple" THEN r.errs
    ELSE <<>>

\* Routine._run: `run_time, errs = ret` works on a pair only; a float or an
\* exception object makes it raise TypeError
Unpacks(r) == r.kind = "tuple"

\* Routine._run: the error reports it queues for the unpacked result
RoutineReports(r, f) ==
    IF r.run_time = 0
    THEN IF f["report_invalid_start"] THEN <<r.errs[1]>> ELSE <<>>
    ELSE IF r.run_time > 0 THEN r.errs
    ELSE <<>>

RoutineStopOnAnyFault(r, f) ==
    IF r.run_time = 0 THEN ~f["proceed_on_invalid_start"]
    ELSE IF r.run_time > 0
    THEN \E i \in DOMAIN r.errs :
            \/ r.errs[i].kind = "PumpTimeoutError" /\ ~f["proceed_on_timeout"]
            \/ r.errs[i].kind = "ErrorSensorTriggered" /\ ~f["proceed_on_error"]
    ELSE FALSE

\* Routine._run: whether the unpacked result sets stop
RoutineStop(r, f) ==
    IF r.run_time = 0 THEN ~f["proceed_on_invalid_start"]
    ELSE IF r.run_time > 0
    THEN \E i \in DOMAIN r.errs :
            \/ r.errs[i].kind = "PumpTimeoutError" /\ ~f["proceed_on_timeout"]
            \/ /\ r.errs[i].kind = "ErrorSensorTriggered"
               /\ r.errs[i].remaining_runs <= 0
               /\ ~f["proceed_on_error"]
    ELSE FALSE

\* What messenger.send can do: deliver, fail with one of the connection errors
\* Controller.notify catches (ImapToolsError, socket.gaierror), or fail with
\* another exception (EmailMessenger.send raises MessengerError on an
\* SMTPException)
SendOutcomes == {"sent", "connection error", "delivery failure"}

NotifyAnyone(recipients, outcome) ==
    IF outcome = "sent" THEN "sent"
    ELSE IF outcome = "connection error" THEN "retry scheduled"
    ELSE "raised"

\* Controller.notify for the completion-or-failure message: nothing is sent to
\* an empty recipient list; a send that fails with a connection error is
\* rescheduled as a run_once job; any other exception of send leaves notify
Notify(recipients, outcome) ==
    IF recipients = <<>> THEN "no recipients"
    ELSE IF outcome = "sent" THEN "sent"
    ELSE IF outcome = "connection error" THEN "retry scheduled"
    ELSE "raised"

Sensors == TankSensors \cup ErrorSensors

\* writer, while no notify_monitor call is in progress
NoWriter == [name |-> "", todo |-> <<>>, before |-> ""]

\* reader, while no tank_state read has begun
NoReader == [pc |-> "idle", unread |-> {}, state_reports |-> <<>>, result |-> "",
             allowed |-> {}]

\* The monitor and dispenser once every sensor and pump is registered, with the
\* pins at levels v
StepConstructed(c, f, v) ==
    /\ cfg = c
    /\ flags = f
    /\ value = v
    /\ tank_states = Registered(c, v)
    /\ error_checks = [e \in ErrorSensors |->
                         UpdateStatus(e, Submersion(v[e]), PermittedRunsOf(e)).error_check]
    /\ remaining_runs = [e \in ErrorSensors |-> PermittedRunsOf(e)]
    /\ pumps = [p \in Pumps |-> FALSE]
    /\ pc = "idle"
    /\ stepIdx = 0
    /\ errs = <<>>
    /\ run_time = 0
    /\ step_ret = NoRet
    /\ job_ret = "None"
    /\ turnedOn = FALSE
    /\ startState = ""
    /\ writer = NoWriter
    /\ reader = NoReader

\* A routine with completion contacts cc that driver d runs, before its first run
RoutineConstructed(d, cc) ==
    /\ driver = d
    /\ completion_contacts = cc
    /\ ticks = 0
    /\ errors = <<>>
    /\ error_reports = <<>>
    /\ stop = FALSE
    /\ notified = "none"

\* The completion contacts a run by driver d can read: Routine._run sends no
\* notification and never reads the routine's contact lists, so the empty list
\* stands for all of them there
ContactsOf(d) == IF d = "Routine._run" THEN {<<>>} ELSE ContactLists

StepInit ==
    /\ \E c \in Configs, f \in [FlagNames -> BOOLEAN], v \in [Sensors -> {0, 1}] :
          StepConstructed(c, f, v)
    /\ \E d \in Drivers :
          \E cc \in ContactsOf(d) : RoutineConstructed(d, cc)

\* A tank sensor's pin changes level: when_activated / when_deactivated call
\* TankSensor.notify_monitor
TankSensorChange ==
    /\ \E s \in TankSensors :
        LET v == 1 - value[s] IN
        /\ value' = [value EXCEPT ![s] = v]
        /\ tank_states' = TankSensorNotify(tank_states, cfg, s, v)
    /\ UNCHANGED <<cfg, flags, error_checks, remaining_runs, pumps, pc, stepIdx, errs,
                   run_time, step_ret, job_ret, turnedOn, startState, routineVars>>
    /\ UNCHANGED <<schedVars, jobVars, raised, cmdVars, threadVars, callVars>>

\* An error sensor's pin changes level: ErrorSensor.notify_monitor
ErrorSensorChange ==
    /\ \E s \in ErrorSensors :
        LET v == 1 - value[s]
            u == UpdateStatus(s, Submersion(v), remaining_runs[s])
        IN
        /\ value' = [value EXCEPT ![s] = v]
        /\ error_checks' = [error_checks EXCEPT ![s] = u.error_check]
        /\ remaining_runs' = [remaining_runs EXCEPT ![s] = u.remaining_runs]
    /\ UNCHANGED <<cfg, flags, tank_states, pumps, pc, stepIdx, errs, run_time,
                   step_ret, job_ret, turnedOn, startState, routineVars>>
    /\ UNCHANGED <<schedVars, jobVars, raised, cmdVars, threadVars, callVars>>

\* Controller.run_routine or Routine._run is called (by its job, or by the run
\* command). run_routine's stop, errors, error_reports and job_ret are fresh
\* locals; Routine._run's stop and job_ret are, but self.errors and
\* self.error_reports are the routine object's lists, which it appends to
RunRoutine ==
    /\ pc = "idle"
    /\ \A e \in ErrorSensors : remaining_runs[e] > -MaxOverrun
    /\ driver = "Routine._run" => Len(errors) < MaxBuffer
    /\ pc' = "routine"
    /\ stepIdx' = 1
    /\ job_ret' = "None"
    /\ stop' = FALSE
    /\ notified' = "none"
    /\ IF driver = "Controller.run_routine"
       THEN errors' = <<>> /\ error_reports' = <<>>
       ELSE UNCHANGED <<errors, error_reports>>
    /\ UNCHANGED <<driver, completion_contacts, ticks>>
    /\ UNCHANGED <<cfg, flags, value, tank_states, error_checks, remaining_runs, pumps,
                   errs, run_time, step_ret, turnedOn, startState>>
    /\ UNCHANGED <<schedVars, jobVars, raised, cmdVars, threadVars, callVars>>

\* Routine.run is called again and again on one routine object: it calls
\* self._run, which appends to self.errors and self.error_reports; nothing
\* calls Routine.reset
RoutineRun ==
    /\ pc = "idle"
    /\ driver = "Routine._run"
    /\ \A e \in ErrorSensors : remaining_runs[e] > -MaxOverrun
    /\ Len(errors) < MaxResults
    /\ pc' = "routine"
    /\ stepIdx' = 1
    /\ job_ret' = "None"
    /\ stop' = FALSE
    /\ UNCHANGED <<driver, completion_contacts, ticks, errors, error_reports, notified>>
    /\ UNCHANGED <<cfg, flags, value, tank_states, error_checks, remaining_runs, pumps,
                   errs, run_time, step_ret, turnedOn, startState>>
    /\ UNCHANGED <<schedVars, jobVars, raised, cmdVars, threadVars, callVars>>

\* Dispenser.run_step, up to _run_step's loop: the start state is checked; if it
\* is met the pump is turned on, else an InitialStateError is returned. run_time
\* is first the difference of the time.time() reads before and after the pump's
\* on(): zero when the clock shows no advance between the two, else positive
RunStep ==
    /\ pc = "routine"
    /\ LET step == Steps[stepIdx]
           state == TankState(tank_states)
       IN
       /\ startState' = state
       /\ ticks' = 0
       /\ IF StartStateMet(state, step)
          THEN /\ pumps' = PumpOn(pumps, step.pump)
               /\ turnedOn' = TRUE
               /\ \E d \in {0, BounceTime} : run_time' = d
               /\ errs' = [i \in DOMAIN step.error_checks |-> NoError]
               /\ pc' = "loop"
               /\ UNCHANGED step_ret
          ELSE /\ step_ret' = InitialStateError(step.name, state)
               /\ turnedOn' = FALSE
               /\ pc' = "returned"
               /\ UNCHANGED <<pumps, run_time, errs>>
    /\ UNCHANGED <<cfg, flags, value, tank_states, error_checks, remaining_runs,
                   stepIdx, job_ret>>
    /\ UNCHANGED <<driver, completion_contacts, errors, error_reports, stop, notified>>
    /\ UNCHANGED <<schedVars, jobVars, raised, cmdVars, threadVars, callVars>>

\* One test of _run_step's while condition and, if it holds, one pass through
\* the loop body (a polling tick), over which the clock advances; when the loop
\* is left, the pump is turned off and _run_step and run_step return
LoopIter ==
    /\ pc = "loop"
    /\ LET step == Steps[stepIdx] IN
       IF TankState(tank_states) = step.end_state
       THEN /\ pumps' = PumpOff(pumps, step.pump)
            /\ step_ret' = StepReturn(run_time, errs)
            /\ pc' = "returned"
            /\ errs' = <<>>
            /\ run_time' = 0
            /\ UNCHANGED <<remaining_runs, ticks>>
       ELSE \E d \in {BounceTime} :
            LET c == RunChecks(step.error_checks, errs, remaining_runs, 1)
                rt == run_time + d
            IN
            /\ remaining_runs' = c.remaining_runs
            /\ ticks' = ticks + 1
            /\ IF TimedOut(rt, step.max_time)
               THEN /\ pumps' = PumpOff(pumps, step.pump)
                    /\ step_ret' = StepReturn(rt, Append(c.errs, PumpTimeoutError(step.pump, rt)))
                    /\ pc' = "returned"
                    /\ errs' = <<>>
                    /\ run_time' = 0
               ELSE /\ errs' = c.errs
                    /\ run_time' = rt
                    /\ UNCHANGED <<pumps, step_ret, pc>>
    /\ UNCHANGED <<cfg, flags, value, tank_states, error_checks, stepIdx, job_ret,
                   turnedOn, startState>>
    /\ UNCHANGED <<driver, completion_contacts, errors, error_reports, stop, notified>>
    /\ UNCHANGED <<schedVars, jobVars, raised, cmdVars, threadVars, callVars>>

\* The routine's handling of the step's result. Routine._run raises TypeError on
\* a result it cannot unpack. Otherwise the fault list and the error reports are
\* recorded and stop is set or not; the for loop goes on to the next step, or it
\* ends: run_routine logs the run, sends the error reports and the
\* completion-or-failure notification and returns job_ret; Routine._run returns
\* job_ret
Classify ==
    /\ pc = "returned"
    /\ IF driver = "Routine._run" /\ ~Unpacks(step_ret)
       THEN /\ job_ret' = "TypeError"
            /\ pc' = "idle"
            /\ stepIdx' = 0
            /\ UNCHANGED <<errors, error_reports, stop, notified>>
       ELSE LET byController == driver = "Controller.run_routine"
                stops == IF byController THEN Stop(step_ret, flags)
                         ELSE RoutineStop(step_ret, flags)
                reports == IF byController THEN Reports(step_ret, flags)
                           ELSE RoutineReports(step_ret, flags)
            IN
            /\ errors' = Append(errors, Faults(step_ret))
            /\ error_reports' = error_reports \o reports
            /\ stop' = stops
            /\ IF stops \/ stepIdx = Len(Steps)
               THEN /\ pc' = "idle"
                    /\ stepIdx' = 0
                    /\ IF byController
                       THEN \E outcome \in SendOutcomes :
                               /\ notified' = Notify(completion_contacts, outcome)
                               /\ job_ret' =
                                     IF notified' = "raised" THEN "MessengerError"
                                     ELSE RoutineJobRet(stops,
                                                        flags["cancel_on_critical_failure"])
                       ELSE /\ job_ret' = RoutineJobRet(stops,
                                                       flags["cancel_on_critical_failure"])
                            /\ UNCHANGED notified
               ELSE /\ pc' = "routine"
                    /\ stepIdx' = stepIdx + 1
                    /\ UNCHANGED <<job_ret, notified>>
    /\ step_ret' = NoRet
    /\ turnedOn' = FALSE
    /\ startState' = ""
    /\ errs' = <<>>
    /\ run_time' = 0
    /\ ticks' = 0
    /\ UNCHANGED <<cfg, flags, value, tank_states, error_checks, remaining_runs, pumps,
                   driver, completion_contacts>>
    /\ UNCHANGED <<schedVars, jobVars, raised, cmdVars, threadVars, callVars>>

\* ------------------------------------------------- notifications

\* Controller.notify, called by run_routine, by process_remote or by a retry
\* job: nothing happens for an empty recipient list; else messenger.send is
\* called, and if it raises one of the two connection errors, a run_once job
\* that calls notify again is created with every(1).minute, given the lowest
\* priority and a tag, and scheduled with do(); then CancelJob() is returned.
\* Another exception of send leaves notify, and so does the ValueError of
\* max() when lowest_priority finds no job in the scheduler
NotifyCall ==
    /\ unscheduled = NoJob
    /\ \E recipients \in ContactLists, outcome \in SendOutcomes :
        LET result == Notify(recipients, outcome) IN
        IF result = "retry scheduled"
        THEN /\ created < MaxJobs
             /\ created' = created + 1
             /\ \E t \in Tags : tags' = [tags EXCEPT ![created + 1] = {t, "Notify"}]
             /\ IF jobs = <<>>
                THEN /\ notified' = "raised"
                     /\ UNCHANGED jobs
                ELSE /\ LowestPriorityOf(Priorities) <= MaxPriority + MaxShift
                     /\ notified' = result
                     /\ jobs' = Append(jobs, [id |-> created + 1,
                                              next_run |-> now + 1,
                                              interval |-> 1,
                                              priority |-> LowestPriorityOf(Priorities),
                                              run_once |-> TRUE,
                                              notification |-> created + 1])
        ELSE /\ notified' = result
             /\ UNCHANGED <<jobs, created, tags>>
    /\ UNCHANGED <<unscheduled, query, found, lastSet, raised, cmdVars, threadVars, callVars>>
    /\ UNCHANGED <<now, inPass, pending, ran, last, lastRet>>
    /\ UNCHANGED <<cfg, flags, value, tank_states, error_checks, remaining_runs, pumps,
                   pc, stepIdx, errs, run_time, step_ret, job_ret, turnedOn, startState>>
    /\ UNCHANGED <<driver, completion_contacts, ticks, errors, error_reports, stop>>

\* One iteration of run_pending's loop on a retry job, whose job_func is
\* Controller.notify with the kwargs of the notification that failed. If send
\* succeeds, notify returns CancelJob() and _run_job removes the job. If send
\* raises a connection error again, notify first schedules a new retry job for
\* the same kwargs. Another exception of send leaves notify, Job.run and
\* run_pending: the job is neither rescheduled nor removed
RunRetry ==
    /\ inPass
    /\ pending # <<>>
    /\ "notification" \in DOMAIN Head(pending)
    /\ LET j == Head(pending) IN
       \E outcome \in SendOutcomes :
        /\ notified' = NotifyAnyone(<<"owner">>, outcome)
        /\ IF notified' = "raised"
           THEN /\ raised' = [id |-> j.id, skipped |-> Ids(Tail(pending))]
                /\ lastRet' = [lastRet EXCEPT ![j.id] = "raised"]
                /\ inPass' = FALSE
                /\ pending' = <<>>
                /\ ran' = <<>>
                /\ last' = NoRun
                /\ UNCHANGED <<jobs, created, tags>>
           ELSE /\ IF notified' = "retry scheduled"
                   THEN /\ created < MaxJobs + MaxRetries
                        /\ LowestPriorityOf(Priorities) <= MaxPriority + MaxShift
                        /\ created' = created + 1
                        /\ \E t \in Tags :
                              tags' = [tags EXCEPT ![created + 1] = {t, "Notify"}]
                        /\ jobs' = Remove(Append(jobs,
                                       [id |-> created + 1,
                                        next_run |-> now + 1,
                                        interval |-> 1,
                                        priority |-> LowestPriorityOf(Priorities),
                                        run_once |-> TRUE,
                                        notification |-> j.notification]), j.id)
                   ELSE /\ jobs' = Remove(jobs, j.id)
                        /\ UNCHANGED <<created, tags>>
                /\ pending' = Tail(pending)
                /\ ran' = Append(ran, [next_run |-> j.next_run, priority |-> j.priority])
                /\ last' = [id |-> j.id, run_once |-> j.run_once, ret |-> "CancelJob",
                            at |-> now, before |-> lastRet[j.id]]
                /\ lastRet' = [lastRet EXCEPT ![j.id] = "CancelJob"]
                /\ UNCHANGED <<inPass, raised>>
    /\ UNCHANGED <<now, unscheduled, query, found, lastSet, cmdVars, threadVars, callVars>>
    /\ UNCHANGED <<cfg, flags, value, tank_states, error_checks, remaining_runs, pumps,
                   pc, stepIdx, errs, run_time, step_ret, job_ret, turnedOn, startState>>
    /\ UNCHANGED <<driver, completion_contacts, ticks, errors, error_reports, stop>>

\* ------------------------------------------------- remote commands

\* bound
MaxCommands == 2

\* controller.routines: the names of the routines the controller holds
Routines == {"Water_Change"}

\* The random tags every() gives to the jobs it builds
RandomTags == {"K3QZ7", "P0M4X"}

\* The job_tags lists of the pause and cancel commands
TagArgs == {<<"Water_Change">>, <<"K3QZ7">>, <<"Water_Change", "Repeating">>}

\* str.isnumeric() and int() of the interval terms the commands are given
Numerals == ("0" :> 0) @@ ("1" :> 1) @@ ("2" :> 2) @@ ("10" :> 10)

UNITS == {"seconds", "minutes", "hours", "days", "weeks", "months"}

SINGULAR_UNITS == {"second", "minute", "hour", "day", "week", "month"}

\* The units a Job has a property for and datetime.timedelta a keyword for, in
\* minutes (seconds are below the time unit and are not among the inputs)
JobUnits == [minute |-> 1, minutes |-> 1, hour |-> 60, hours |-> 60,
             day |-> Day, days |-> Day, week |-> Week, weeks |-> Week]

TimedeltaUnits == [minutes |-> 1, hours |-> 60, days |-> Day, weeks |-> Week]

\* DAYS of arg_funcs, with the index datetime.weekday() gives each day
DAYS == [monday |-> 0, tuesday |-> 1, wednesday |-> 2, thursday |-> 3,
         friday |-> 4, saturday |-> 5, sunday |-> 6]

\* The --at strings of the inputs that match at()'s pattern
\* ^([0-2]\d:)?[0-5]\d:[0-5]\d$, with the hour and minute Job.at reads
AtFields == ("00:00:00" :> [hour |-> 0, minute |-> 0])
         @@ ("00:01:00" :> [hour |-> 0, minute |-> 1])
         @@ ("29:00:00" :> [hour |-> 29, minute |-> 0])

\* An exception, as the outcome of a call
Exc(name) == [result |-> name, made |-> FALSE]

\* _process_timespan: the (interval, unit) pair of two terms, or the exception
ProcessTimespan(left, right) ==
    IF left \notin DOMAIN Numerals THEN Exc("ValueError")
    ELSE LET interval == Numerals[left]
             unit_set == IF interval = 1 THEN SINGULAR_UNITS ELSE UNITS
         IN
         IF interval < 1 THEN Exc("ValueError")
         ELSE IF right \notin unit_set THEN Exc("KeyError")
         ELSE [result |-> "pair", interval |-> interval, unit |-> right]

\* at(string, target): the job with its at_time set, or the exception; Job.at
\* refuses an hour above 23
At(string, job) ==
    IF string \notin DOMAIN AtFields THEN Exc("ValueError")
    ELSE IF AtFields[string].hour > 23 THEN Exc("ScheduleValueError")
    ELSE LET tod == AtFields[string].hour * 60 + AtFields[string].minute IN
         IF "start_day" \in DOMAIN job
         THEN [result |-> "job", made |-> TRUE,
               job |-> [interval |-> Week, start_day |-> job.start_day,
                        at_time |-> job.start_day * Day + tod]]
         ELSE [result |-> "job", made |-> TRUE,
               job |-> [interval |-> Day, at_time |-> tod]]

\* schedule_in(terms, schedule): the job every(interval).<unit>, or the exception
ScheduleIn(terms) ==
    IF Len(terms) # 2 THEN Exc("ValueError")
    ELSE LET p == ProcessTimespan(terms[1], terms[2]) IN
         IF p.result # "pair" THEN p
         ELSE IF p.unit \notin DOMAIN JobUnits THEN Exc("AttributeError")
         ELSE [result |-> "job", made |-> TRUE,
               job |-> [interval |-> p.interval * JobUnits[p.unit]]]

\* on(string, schedule) followed by _set_at_in: the job the run command
\* configures before it sets run_once and the tags, or the exception
SetAtIn(args) ==
    IF args.on # "" /\ args.on \notin DOMAIN DAYS THEN Exc("ValueError")
    ELSE IF args.at # ""
    THEN At(args.at, IF args.on # "" THEN [start_day |-> DAYS[args.on]] ELSE [unit |-> "days"])
    ELSE IF args.in # <<>> THEN ScheduleIn(args.in)
    ELSE IF args.on # ""
    THEN [result |-> "job", made |-> TRUE,
          job |-> [interval |-> Week, start_day |-> DAYS[args.on]]]
    ELSE Exc("ArgumentError")

RunKeepsJobOnError(args) ==
    IF args.routine \notin Routines THEN [result |-> "False", made |-> FALSE]
    ELSE LET j == SetAtIn(args) IN
         IF j.made THEN [j EXCEPT !.result = "True"]
         ELSE IF j.result = "ScheduleValueError"
         THEN [result |-> j.result, made |-> TRUE, job |-> [interval |-> Day]]
         ELSE j

\* The run command: what it returns or raises and, if it gets to do(), the job
\* it has configured
Run(args) ==
    IF args.routine \notin Routines THEN [result |-> "False", made |-> FALSE]
    ELSE LET j == SetAtIn(args) IN
         IF j.made THEN [j EXCEPT !.result = "True"] ELSE j

\* The tags the run command gives its job, beside the random tag of every()
RunTagsOneTimeOnly(args) == {"One-Time", args.routine}

RunTags(args) == {IF args.repeat THEN "Repeating" ELSE "One-Time", args.routine}

\* itertools.pairwise(terms)
Pairwise(terms) == [i \in 1..(Len(terms) - 1) |-> <<terms[i], terms[i + 1]>>]

\* delay_for's loop over the pairs from position i on: the td_kwargs it fills,
\* or the exception of the first pair _process_timespan refuses
RECURSIVE TdKwargs(_, _, _)
TdKwargs(pairs, i, kw) ==
    IF i > Len(pairs) THEN [result |-> "kwargs", kw |-> kw]
    ELSE LET p == ProcessTimespan(pairs[i][1], pairs[i][2]) IN
         IF p.result # "pair" THEN p
         ELSE TdKwargs(pairs, i + 1,
                       [u \in DOMAIN kw \cup {p.unit} |->
                           IF u = p.unit THEN p.interval ELSE kw[u]])

\* The sum of f over all of its domain
RECURSIVE SumOver(_, _)
SumOver(S, f) ==
    IF S = {} THEN 0
    ELSE LET x == CHOOSE y \in S : TRUE IN f[x] + SumOver(S \ {x}, f)

\* delay_for(terms, job): the job's new next_run, or the exception.
\* pairwise(None) and an unknown timedelta keyword raise TypeError
DelayFor(terms, next_run) ==
    IF terms = <<>> THEN Exc("TypeError")
    ELSE LET k == TdKwargs(Pairwise(terms), 1, <<>>) IN
         IF k.result # "kwargs" THEN k
         ELSE IF ~(DOMAIN k.kw \subseteq DOMAIN TimedeltaUnits) THEN Exc("TypeError")
         ELSE LET offset == SumOver(DOMAIN k.kw,
                               [u \in DOMAIN k.kw |-> k.kw[u] * TimedeltaUnits[u]])
              IN [result |-> "job", made |-> TRUE,
                  next_run |-> IF next_run # NoneTime THEN next_run + offset
                               ELSE next_run]

\* dtparse(fuzzy_dt_str, fuzzy=True) at time t: a time of day (of the inputs,
\* 23:59:00, minute 1439) is taken on the day of t; what cannot be parsed
\* raises ParserError
DtParse(terms, t) ==
    IF terms = <<"23:59:00">>
    THEN [result |-> "datetime", value |-> t - (t % Day) + 1439]
    ELSE Exc("ParserError")

\* delay_until(terms, job): the job's new next_run, or the exception
DelayUntil(terms, next_run) ==
    LET new_dt == DtParse(terms, now) IN
    IF new_dt.result # "datetime" THEN Exc("ValueError")
    ELSE IF next_run = NoneTime THEN [result |-> "job", made |-> TRUE, next_run |-> next_run]
    ELSE IF next_run < new_dt.value
    THEN [result |-> "job", made |-> TRUE, next_run |-> new_dt.value]
    ELSE Exc("ValueError")

\* next_run of the scheduler's job id
NextRunOfJob(id) ==
    LET i == CHOOSE k \in DOMAIN jobs : jobs[k].id = id IN jobs[i].next_run

\* pause with its delay applied before the match count and the delay's own
\* checks are looked at
PauseAppliesOnError(args) ==
    LET matches == GetJobsFromTags(args.job_tags).jobs IN
    IF matches = {} THEN Exc("IndexError")
    ELSE LET id == CHOOSE j \in matches : TRUE IN
         [result |-> "False", made |-> TRUE, id |-> id, next_run |-> now + 1]

\* The pause command: what it returns or raises, the job it delays and the
\* job's new next_run. `"for" in args` holds for every argument dictionary the
\* parser makes, so delay_for is called also when --until was given and
\* args["for"] is None
Pause(args) ==
    LET matches == GetJobsFromTags(args.job_tags).jobs IN
    IF Cardinality(matches) > 1 THEN [result |-> "False", made |-> FALSE]
    ELSE IF matches = {} THEN Exc("IndexError")
    ELSE LET id == CHOOSE j \in matches : TRUE
             d == IF "for" \in DOMAIN args
                  THEN DelayFor(args["for"], NextRunOfJob(id))
                  ELSE IF "until" \in DOMAIN args
                  THEN DelayUntil(args["until"], NextRunOfJob(id))
                  ELSE [result |-> "job", made |-> TRUE, next_run |-> NextRunOfJob(id)]
         IN
         IF d.result = "job"
         THEN [result |-> "True", made |-> TRUE, id |-> id, next_run |-> d.next_run]
         ELSE IF d.result = "ValueError" THEN [result |-> "False", made |-> FALSE]
         ELSE d

\* The cancel command: what it returns or raises and the job it cancels. It
\* reads args["jobtags"]; the parser's key is job_tags
CancelCommand(args) ==
    IF "jobtags" \notin DOMAIN args THEN Exc("KeyError")
    ELSE LET matches == GetJobsFromTags(args.jobtags).jobs IN
         IF Cardinality(matches) > 1 THEN [result |-> "False", made |-> FALSE]
         ELSE IF Cardinality(matches) = 1
         THEN [result |-> "True", made |-> TRUE, id |-> CHOOSE j \in matches : TRUE]
         ELSE [result |-> "True", made |-> FALSE]

\* The argument dictionaries of the run commands
RunArgs ==
    {[routine |-> "Water_Change", on |-> w.on, at |-> w.at, in |-> w.in,
      repeat |-> w.repeat] :
        w \in {[on |-> "", at |-> "00:00:00", in |-> <<>>, repeat |-> FALSE],
               [on |-> "", at |-> "00:01:00", in |-> <<>>, repeat |-> FALSE],
               [on |-> "", at |-> "00:01:00", in |-> <<>>, repeat |-> TRUE],
               [on |-> "", at |-> "", in |-> <<"2", "minutes">>, repeat |-> FALSE],
               [on |-> "", at |-> "", in |-> <<"2", "minutes">>, repeat |-> TRUE],
               [on |-> "monday", at |-> "00:01:00", in |-> <<>>, repeat |-> TRUE],
               [on |-> "tuesday", at |-> "", in |-> <<>>, repeat |-> TRUE],
               [on |-> "", at |-> "29:00:00", in |-> <<>>, repeat |-> FALSE],
               [on |-> "", at |-> "noon", in |-> <<>>, repeat |-> FALSE],
               [on |-> "funday", at |-> "00:00:00", in |-> <<>>, repeat |-> FALSE],
               [on |-> "", at |-> "", in |-> <<"2">>, repeat |-> FALSE],
               [on |-> "", at |-> "", in |-> <<"0", "minutes">>, repeat |-> FALSE],
               [on |-> "", at |-> "", in |-> <<"1", "minutes">>, repeat |-> FALSE],
               [on |-> "", at |-> "", in |-> <<"2", "months">>, repeat |-> FALSE],
               [on |-> "", at |-> "", in |-> <<>>, repeat |-> FALSE]}}
    \cup
    {[routine |-> "Top_Off", on |-> "", at |-> "00:00:00", in |-> <<>>, repeat |-> FALSE]}

\* The argument dictionaries of the pause commands: --for and --until exclude
\* each other, and the one not given is None
PauseArgs ==
    {[job_tags |-> t, for |-> f, until |-> <<>>] :
        t \in TagArgs,
        f \in {<<"10", "minutes">>, <<"2", "hours", "10", "minutes">>, <<"1", "hour">>}}
    \cup
    {[job_tags |-> t, for |-> <<>>, until |-> <<"23:59:00">>] : t \in TagArgs}

\* The argument dictionaries of the cancel commands
CancelArgs == {[job_tags |-> t] : t \in TagArgs}

\* process_remote(args, controller, output='standard', contacts): nothing at
\* all is done without contacts; else func(args, controller) is called, what
\* it returns is logged, and an exception it raises is caught and logged
ProcessRun ==
    /\ ~inPass
    /\ reply.n < MaxCommands
    /\ \E args \in RunArgs, contacts \in ContactLists :
        LET r == Run(args) IN
        IF contacts = <<>>
        THEN /\ reply' = [n |-> reply.n + 1, cmd |-> "run", args |-> args,
                          result |-> "ignored"]
             /\ UNCHANGED <<jobs, created, tags>>
        ELSE /\ reply' = [n |-> reply.n + 1, cmd |-> "run", args |-> args,
                          result |-> r.result]
             /\ IF r.made
                THEN /\ created < MaxJobs
                     /\ created' = created + 1
                     /\ \E t \in RandomTags :
                           tags' = [tags EXCEPT ![created + 1] = {t} \cup RunTags(args)]
                     /\ jobs' = Append(jobs,
                                  [id |-> created + 1, priority |-> 0,
                                   run_once |-> ~args.repeat,
                                   next_run |-> NextRunOf(r.job, now)] @@ r.job)
                ELSE UNCHANGED <<jobs, created, tags>>
    /\ UNCHANGED <<now, inPass, pending, ran, last, lastRet>>
    /\ UNCHANGED <<unscheduled, query, found, lastSet, raised, threadVars, callVars>>
    /\ UNCHANGED stepVars

ProcessPause ==
    /\ ~inPass
    /\ reply.n < MaxCommands
    /\ \E args \in PauseArgs, contacts \in ContactLists :
        LET r == Pause(args) IN
        IF contacts = <<>>
        THEN /\ reply' = [n |-> reply.n + 1, cmd |-> "pause", args |-> args,
                          result |-> "ignored"]
             /\ UNCHANGED jobs
        ELSE /\ reply' = [n |-> reply.n + 1, cmd |-> "pause", args |-> args,
                          result |-> r.result]
             /\ IF r.made
                THEN jobs' = [k \in DOMAIN jobs |->
                                IF jobs[k].id = r.id
                                THEN [jobs[k] EXCEPT !.next_run = r.next_run]
                                ELSE jobs[k]]
                ELSE UNCHANGED jobs
    /\ UNCHANGED <<now, created, inPass, pending, ran, last, lastRet>>
    /\ UNCHANGED <<tags, unscheduled, query, found, lastSet, raised, threadVars, callVars>>
    /\ UNCHANGED stepVars

ProcessCancel ==
    /\ ~inPass
    /\ reply.n < MaxCommands
    /\ \E args \in CancelArgs, contacts \in ContactLists :
        LET r == CancelCommand(args) IN
        IF contacts = <<>>
        THEN /\ reply' = [n |-> reply.n + 1, cmd |-> "cancel", args |-> args,
                          result |-> "ignored"]
             /\ UNCHANGED jobs
        ELSE /\ reply' = [n |-> reply.n + 1, cmd |-> "cancel", args |-> args,
                          result |-> r.result]
             /\ IF r.made
                THEN jobs' = Remove(jobs, r.id)
                ELSE UNCHANGED jobs
    /\ UNCHANGED <<now, created, inPass, pending, ran, last, lastRet>>
    /\ UNCHANGED <<tags, unscheduled, query, found, lastSet, raised, threadVars, callVars>>
    /\ UNCHANGED stepVars

\* ------------------------------------ callback and reader threads

\* _update_state_vals(set_true, set_false) as the writes it makes, one dict
\* entry at a time: the states of set_true, then those of set_false
WritesOf(set_true, set_false) ==
    LET order == <<"full", "normal", "empty">>   \* the order within the lists
        t == SelectSeq(order, LAMBDA st : st \in set_true)
        f == SelectSeq(order, LAMBDA st : st \in set_false)
    IN [i \in DOMAIN t |-> [state |-> t[i], val |-> TRUE]]
       \o [i \in DOMAIN f |-> [state |-> f[i], val |-> FALSE]]

\* The tank state of the map once every callback for the pin levels v is through
SettledState(v) == TankState(Registered(cfg, v))

\* A tank sensor's pin changes level and its callback thread enters
\* notify_monitor, which reads the pin and starts _update_state_vals
SensorEdge ==
    /\ writer = NoWriter
    /\ \E s \in TankSensors :
        LET v == 1 - value[s] IN
        /\ value' = [value EXCEPT ![s] = v]
        /\ writer' = [name |-> s,
                      todo |-> IF v = 1
                               THEN WritesOf(WhenSubmerged(cfg, s), WhenExposed(cfg, s))
                               ELSE WritesOf(WhenExposed(cfg, s), WhenSubmerged(cfg, s)),
                      before |-> TankState(tank_states)]
        /\ reader' = IF reader.pc = "reading"
                     THEN [reader EXCEPT !.allowed = @ \cup {SettledState(value')}]
                     ELSE reader
    /\ UNCHANGED <<cfg, flags, tank_states, error_checks, remaining_runs, pumps, pc,
                   stepIdx, errs, run_time, step_ret, job_ret, turnedOn, startState,
                   routineVars>>
    /\ UNCHANGED <<schedVars, jobVars, raised, cmdVars, callVars>>

\* _update_state_vals: one assignment monitor.tank_states[s][self.name] = ...
WriteEntry ==
    /\ writer.todo # <<>>
    /\ LET w == Head(writer.todo) IN
       tank_states' = [tank_states EXCEPT ![w.state] = Put(@, writer.name, w.val)]
    /\ writer' = IF Len(writer.todo) = 1 THEN NoWriter
                 ELSE [writer EXCEPT !.todo = Tail(@)]
    /\ UNCHANGED <<cfg, flags, value, error_checks, remaining_runs, pumps, pc,
                   stepIdx, errs, run_time, step_ret, job_ret, turnedOn, startState,
                   routineVars>>
    /\ UNCHANGED <<schedVars, jobVars, raised, cmdVars, reader, callVars>>

\* Monitor.tank_state is entered in the main thread
ReadBegin ==
    /\ reader.pc # "reading"
    /\ reader' = [pc |-> "reading", unread |-> DOMAIN tank_states,
                  state_reports |-> <<>>, result |-> "",
                  allowed |-> {SettledState(value)}
                              \cup (IF writer = NoWriter THEN {} ELSE {writer.before})]
    /\ UNCHANGED <<schedVars, stepVars, jobVars, raised, cmdVars, writer, callVars>>

\* tank_state: one pass of `for state, records in self.tank_states.items()`;
\* the order of the states is that of a set's iteration
ReadState ==
    /\ reader.pc = "reading"
    /\ \E st \in reader.unread :
        reader' = [reader EXCEPT
                     !.unread = @ \ {st},
                     !.state_reports =
                         Put(@, st, \A s \in DOMAIN tank_states[st] : tank_states[st][s])]
    /\ UNCHANGED <<schedVars, stepVars, jobVars, raised, cmdVars, writer, callVars>>

\* tank_state returns the one active state or CheckError()
ReadReturn ==
    /\ reader.pc = "reading"
    /\ reader.unread = {}
    /\ LET states == {st \in DOMAIN reader.state_reports : reader.state_reports[st]} IN
       reader' = [reader EXCEPT !.pc = "done",
                                !.result = IF Cardinality(states) = 1
                                           THEN CHOOSE st \in states : TRUE
                                           ELSE "CheckError"]
    /\ UNCHANGED <<schedVars, stepVars, jobVars, raised, cmdVars, writer, callVars>>

\* ------------------------------ check_error beside the callback thread

\* Monitor.check_error(name, decrement) is entered in the main thread and reads
\* state = self.error_checks[name]; unless it is to decrement, it returns
CheckErrorBegin ==
    /\ checking.pc = "idle"
    /\ \E name \in ErrorSensors, decrement \in BOOLEAN :
         /\ remaining_runs[name] > -MaxOverrun
         /\ checking' = IF error_checks[name] /\ decrement
                        THEN [pc |-> "decrement", name |-> name]
                        ELSE [pc |-> "idle"]
    /\ UNCHANGED <<schedVars, stepVars, jobVars, raised, cmdVars, threadVars, operands>>

\* check_error: `self.sensors[name].remaining_runs -= 1` loads the attribute
CheckErrorLoad ==
    /\ checking.pc = "decrement"
    /\ checking' = [pc |-> "loaded", name |-> checking.name,
                    loaded |-> remaining_runs[checking.name]]
    /\ UNCHANGED <<schedVars, stepVars, jobVars, raised, cmdVars, threadVars, operands>>

\* check_error: `-=` stores the loaded value less one; check_error returns
CheckErrorStore ==
    /\ checking.pc = "loaded"
    /\ remaining_runs' = [remaining_runs EXCEPT ![checking.name] = checking.loaded - 1]
    /\ checking' = [pc |-> "idle"]
    /\ UNCHANGED <<cfg, flags, value, tank_states, error_checks, pumps, pc, stepIdx,
                   errs, run_time, step_ret, job_ret, turnedOn, startState, routineVars>>
    /\ UNCHANGED <<schedVars, jobVars, raised, cmdVars, threadVars, operands>>

\* --------------------------------------------------- job comparison

\* The jobs __lt__ is given: never scheduled (next_run None) or scheduled, with
\* any priority
JobValues == [next_run : {NoneTime} \cup (0..MaxTime), priority : 0..MaxPriority]

\* self < other is evaluated, once, for each pair of three jobs:
\* AdvancedJob.__lt__
Compare ==
    /\ operands = <<>>
    /\ \E a \in JobValues, b \in JobValues, c \in JobValues :
         LET js == <<a, b, c>> IN
         operands' = [jobs |-> js,
                      lt |-> [i \in 1..3 |-> [k \in 1..3 |-> Lt(js[i], js[k])]]]
    /\ UNCHANGED <<schedVars, stepVars, jobVars, raised, cmdVars, threadVars, checking>>

\* --------------------------------------------------- specifications
vars == <<schedVars, stepVars, jobVars, raised, cmdVars, threadVars, callVars>>

\* The scheduler, beside a monitor and dispenser that stay as constructed
Init ==
    /\ SchedInit
    /\ StepConstructed("levels", DefaultFlags, [s \in Sensors |-> 1])
    /\ RoutineConstructed("Controller.run_routine", <<>>)
    /\ JobsInit

Next ==
    \/ Tick
    \/ AddJob
    \/ Cancel
    \/ RunPending
    \/ RunJob
    \/ RunPendingReturn

Spec == Init /\ [][Next]_vars

\* The step engine, beside a scheduler that stays as constructed
InitStep ==
    /\ SchedInit
    /\ StepInit
    /\ JobsInit

NextStep ==
    \/ TankSensorChange
    \/ ErrorSensorChange
    \/ RunRoutine
    \/ RunStep
    \/ LoopIter
    \/ Classify

SpecStep == InitStep /\ [][NextStep]_vars

\* The scheduler's jobs as the commands and the controller configure them: no
\* time passes and no job runs
NextJobs ==
    \/ Every
    \/ Do
    \/ Tag
    \/ Cancel
    \/ LookUp

SpecJobs == Init /\ [][NextJobs]_vars

\* The scheduler's jobs as their priorities are set: no time passes and no job
\* runs
NextPriority ==
    \/ Every
    \/ SetPriority
    \/ Do
    \/ Cancel
    \/ HighestPriority
    \/ LowestPriority

SpecPriority == Init /\ [][NextPriority]_vars

\* The scheduler's jobs with notifications that are sent or fail: no time
\* passes and no job runs
NextNotify ==
    \/ Every
    \/ SetPriority
    \/ Do
    \/ Cancel
    \/ NotifyCall

SpecNotify == Init /\ [][NextNotify]_vars

\* The scheduler with the remote commands run, pause and cancel: jobs are
\* configured, delayed and cancelled between the passes that run them
NextCommands ==
    \/ Tick
    \/ ProcessRun
    \/ ProcessPause
    \/ ProcessCancel
    \/ RunPending
    \/ RunJob
    \/ RunPendingReturn

SpecCommands == Init /\ [][NextCommands]_vars

\* The run commands behind the jobs the pause commands find: Water_Change in
\* two minutes, once or repeating, or at midnight
InitRunArgs ==
    {x \in RunArgs : /\ Run(x).made
                     /\ x.routine = "Water_Change"
                     /\ x.in # <<>> \/ x.at = "00:00:00"}

\* The scheduler after two run commands that succeeded at time 0, each job as
\* ProcessRun inserts it, with the commands to come
InitPause ==
    /\ now = 0
    /\ created = 2
    /\ inPass = FALSE
    /\ pending = <<>>
    /\ ran = <<>>
    /\ last = NoRun
    /\ lastRet = [j \in JobIds |-> "never"]
    /\ \E a \in [1..2 -> InitRunArgs], t \in [1..2 -> RandomTags] :
          /\ jobs = [i \in 1..2 |->
                       [id |-> i, priority |-> 0, run_once |-> ~a[i].repeat,
                        next_run |-> NextRunOf(Run(a[i]).job, 0)] @@ Run(a[i]).job]
          /\ tags = [j \in JobIds |->
                       IF j \in 1..2 THEN {t[j]} \cup RunTags(a[j]) ELSE {}]
    /\ StepConstructed("levels", DefaultFlags, [s \in Sensors |-> 1])
    /\ RoutineConstructed("Controller.run_routine", <<>>)
    /\ unscheduled = NoJob
    /\ query = <<>>
    /\ found = NoneFound
    /\ lastSet = NoSet
    /\ raised = NoRaise
    /\ reply = NoReply
    /\ operands = <<>>
    /\ checking = [pc |-> "idle"]

\* The pause commands between the scheduler's passes
NextPause ==
    \/ Tick
    \/ ProcessPause
    \/ RunPending
    \/ RunJob
    \/ RunPendingReturn

SpecPause == InitPause /\ [][NextPause]_vars

\* The monitor with its sensors' callbacks in one thread and tank_state reads
\* in another, each taking one step at a time
InitThreads ==
    /\ SchedInit
    /\ \E c \in Configs, v \in [Sensors -> {0, 1}] : StepConstructed(c, DefaultFlags, v)
    /\ RoutineConstructed("Controller.run_routine", <<>>)
    /\ JobsInit

NextThreads ==
    \/ SensorEdge
    \/ WriteEntry
    \/ ReadBegin
    \/ ReadState
    \/ ReadReturn

SpecThreads == InitThreads /\ [][NextThreads]_vars

\* One routine object that Routine.run runs repeatedly
InitRoutine ==
    /\ SchedInit
    /\ \E v \in [Sensors -> {0, 1}] : StepConstructed("levels", DefaultFlags, v)
    /\ RoutineConstructed("Routine._run", <<>>)
    /\ JobsInit

NextRoutine ==
    \/ TankSensorChange
    \/ ErrorSensorChange
    \/ RoutineRun
    \/ RunStep
    \/ LoopIter
    \/ Classify

SpecRoutine == InitRoutine /\ [][NextRoutine]_vars

\* The step engine with a clock that advances: time.sleep returns, so a pass
\* through _run_step's loop that can be made is made in the end
SpecLoop == InitThreads /\ [][NextStep]_vars /\ WF_vars(LoopIter)

\* Monitor.check_error in the main thread, one step at a time, beside the error
\* sensors' callbacks in theirs
NextCheck ==
    \/ ErrorSensorChange
    \/ CheckErrorBegin
    \/ CheckErrorLoad
    \/ CheckErrorStore

SpecCheck == InitThreads /\ [][NextCheck]_vars

\* The scheduler with notifications that fail and the retry jobs that send them
\* again
NextRetry ==
    \/ Tick
    \/ AddJob
    \/ NotifyCall
    \/ RunPending
    \/ RunJob
    \/ RunRetry
    \/ RunPendingReturn

SpecRetry == Init /\ [][NextRetry]_vars

\* Jobs compared with one another
SpecCompare == Init /\ [][Compare]_vars

\* The scheduler with job functions that return or raise
NextRaise ==
    \/ Next
    \/ RunJobRaises

SpecRaise == Init /\ [][NextRaise]_vars

\* ------------------------------------------------------------ claims

\* The job of the list that is the one run last
LastJob == CHOOSE j \in Range(jobs) : j.id = last.id

\* C1: a run_pending() pass runs the due jobs in non-decreasing (next_run,
\* priority) order: of two jobs run in one pass, the earlier has the smaller
\* next_run, or the same next_run and a priority value that is not larger
C1_PassOrder ==
    \A i, k \in DOMAIN ran :
        i < k => \/ ran[i].next_run < ran[k].next_run
                 \/ /\ ran[i].next_run = ran[k].next_run
                    /\ ran[i].priority <= ran[k].priority

C1_Witness ==
    /\ Len(ran) >= 2
    /\ ran[1].next_run = ran[2].next_run
    /\ ran[1].priority < ran[2].priority

\* C2: a run_once job is absent from the job list right after it is run,
\* whatever job_func returned, and that run is its first
C2_RunOnceRemoved ==
    (last # NoRun /\ last.run_once) =>
        /\ last.id \notin Ids(jobs)
        /\ last.id \notin Ids(pending)
        /\ last.before = "never"

C2_Witness ==
    /\ last # NoRun
    /\ last.run_once
    /\ last.ret = "None"
    /\ last.id \notin Ids(jobs)

\* C3: a job whose job_func (run_routine) returned CancelJob is no longer in the
\* job list nor in the pass's queue, and no job is run after it returned CancelJob
C3_CancelledNeverRuns ==
    /\ \A id \in JobIds :
          lastRet[id] = "CancelJob" => id \notin Ids(jobs) /\ id \notin Ids(pending)
    /\ last # NoRun => last.before # "CancelJob"

C3_Witness ==
    /\ last # NoRun
    /\ ~last.run_once
    /\ last.ret = RoutineJobRet(TRUE, TRUE)
    /\ last.id \notin Ids(jobs)
    /\ pending # <<>>

CurrentStep == Steps[stepIdx]

\* C5: when run_step has returned, whether with a clean run, a timeout or error
\* faults, the step's pump is off; outside _run_step's loop (between steps,
\* after run_routine returned) no pump is on
C5_PumpOffOnReturn ==
    /\ pc = "returned" => ~pumps[CurrentStep.pump]
    /\ pc # "loop" => \A p \in Pumps : ~pumps[p]

C5_Witness ==
    /\ pc = "returned"
    /\ turnedOn
    /\ step_ret.kind = "tuple"
    /\ \E i \in DOMAIN step_ret.errs : step_ret.errs[i].kind = "PumpTimeoutError"
    /\ ~pumps[CurrentStep.pump]

\* C6 as stated: when run_step returns for a step whose start state was not
\* met, it returns the pair of elapsed 0 and a list of exactly one
\* InitialStateError, and it has not turned the pump on
C6_InvalidStartResult ==
    (pc = "returned" /\ startState # CurrentStep.start_state) =>
        /\ ~turnedOn
        /\ step_ret.kind = "tuple"
        /\ step_ret.run_time = 0
        /\ Len(step_ret.errs) = 1
        /\ step_ret.errs[1].kind = "InitialStateError"

\* The sensors that contribute to a tank state, and the states whose
\* contributing sensors all report true, by the sensors' configuration
Contributors(st) ==
    {s \in TankSensors : st \in WhenSubmerged(cfg, s) \cup WhenExposed(cfg, s)}

ReportsTrue(s, st) ==
    \/ value[s] = 1 /\ st \in WhenSubmerged(cfg, s)
    \/ value[s] = 0 /\ st \in WhenExposed(cfg, s)

ActiveStates ==
    {st \in DOMAIN tank_states : \A s \in Contributors(st) : ReportsTrue(s, st)}

\* C7: tank_state is a state's name exactly when that state is the only one
\* whose contributing sensors all report true, and is the CheckError value
\* exactly when no state or more than one state is active; the map records
\* exactly the contributing sensors' reports
C7_TankStateExact ==
    /\ \A st \in DOMAIN tank_states :
          /\ DOMAIN tank_states[st] = Contributors(st)
          /\ \A s \in Contributors(st) : tank_states[st][s] = ReportsTrue(s, st)
          /\ TankState(tank_states) = st <=> ActiveStates = {st}
    /\ TankState(tank_states) = "CheckError" <=> Cardinality(ActiveStates) # 1
    /\ TankState(tank_states) \in DOMAIN tank_states \cup {"CheckError"}

C7_Witness ==
    /\ Cardinality(ActiveStates) = 2
    /\ TankState(tank_states) = "CheckError"
    /\ pc = "returned"
    /\ startState = "CheckError"

\* C8: a run_step call made while no tank state or more than one is active
\* returns an InitialStateError without turning any pump on
C8_AmbiguousIsInvalidStart ==
    [][(pc = "routine" /\ pc' # "routine" /\ Cardinality(ActiveStates) # 1) =>
          /\ pc' = "returned"
          /\ step_ret'.kind = "InitialStateError"
          /\ step_ret'.state = "CheckError"
          /\ ~turnedOn'
          /\ \A p \in Pumps : ~pumps'[p]]_vars

C8_Witness ==
    /\ pc = "returned"
    /\ step_ret.kind = "InitialStateError"
    /\ step_ret.state = "CheckError"
    /\ ActiveStates = {}
    /\ ~turnedOn
    /\ \A p \in Pumps : ~pumps[p]

\* C9 as stated: no error sensor's remaining_runs is ever negative
C9_NeverNegative ==
    \A e \in ErrorSensors : remaining_runs[e] >= 0

\* C10: when an error sensor's pin changes to the non-triggered level, its
\* remaining_runs becomes permitted_runs and its error check false; when it
\* changes to the triggered level, its error check becomes true and its
\* remaining_runs stays as it was
C10_SensorTransition ==
    [][\A s \in ErrorSensors :
          value'[s] # value[s] =>
             IF Submersion(value'[s]) = TriggerWhen(s)
             THEN error_checks'[s] /\ remaining_runs'[s] = remaining_runs[s]
             ELSE ~error_checks'[s] /\ remaining_runs'[s] = PermittedRunsOf(s)]_vars

C10_Witness ==
    /\ pc = "returned"
    /\ step_ret.kind = "tuple"
    /\ \E i \in DOMAIN step_ret.errs :
          /\ step_ret.errs[i].kind = "ErrorSensorTriggered"
          /\ step_ret.errs[i].remaining_runs < PermittedRunsOf(step_ret.errs[i].name)
          /\ ~error_checks[step_ret.errs[i].name]
          /\ remaining_runs[step_ret.errs[i].name] = PermittedRunsOf(step_ret.errs[i].name)

\* A step of _run_step's loop in which the loop body runs: one polling tick
PollingTick == pc = "loop" /\ ticks' = ticks + 1

\* The error check at position i of the running step's error_checks holds at
\* this polling tick
HeldAt(i) == error_checks[CurrentStep.error_checks[i]]

\* C11 as stated: on every polling tick at which an error check's condition
\* holds, its remaining_runs is lowered by one
C11_DecrementEveryTick ==
    [][PollingTick =>
          \A i \in DOMAIN CurrentStep.error_checks :
             LET name == CurrentStep.error_checks[i] IN
             HeldAt(i) => remaining_runs'[name] = remaining_runs[name] - 1]_vars

\* C11: on a polling tick at which an error check's condition holds, its
\* remaining_runs is lowered by one if the check's previous result in this step
\* run was no fault (the first tick, or a tick at which the condition did not
\* hold), and is left as it is if the previous tick already found the fault: k
\* consecutive ticks with the condition held lower the counter by one
C11_DecrementOnFirstHeldTick ==
    [][PollingTick =>
          \A i \in DOMAIN CurrentStep.error_checks :
             LET name == CurrentStep.error_checks[i] IN
             HeldAt(i) =>
                remaining_runs'[name] =
                   IF Truthy(errs[i]) THEN remaining_runs[name]
                   ELSE remaining_runs[name] - 1]_vars

\* Two polling ticks found the fault, and the counter is one below its maximum
C11_Witness ==
    /\ pc = "returned"
    /\ ticks >= 2
    /\ step_ret.kind = "tuple"
    /\ \E i \in DOMAIN step_ret.errs :
          /\ step_ret.errs[i].kind = "ErrorSensorTriggered"
          /\ step_ret.errs[i].remaining_runs = PermittedRunsOf(step_ret.errs[i].name) - 1
          /\ error_checks[step_ret.errs[i].name]
          /\ remaining_runs[step_ret.errs[i].name] =
                PermittedRunsOf(step_ret.errs[i].name) - 1

\* The routine handles the result of the step that has just returned
Handled == pc = "returned" /\ pc' # "returned"

\* The step's result holds a fault of the given kind
HasFault(r, kind) ==
    r.kind = "tuple" /\ \E i \in DOMAIN r.errs : r.errs[i].kind = kind

\* The routine goes on to the step after the one that has just returned, if
\* there is one, and else ends without CancelJob
GoesOn ==
    /\ ~stop'
    /\ job_ret' # "CancelJob"
    /\ IF stepIdx < Len(Steps)
       THEN pc' = "routine" /\ stepIdx' = stepIdx + 1
       ELSE pc' = "idle"

\* The routine run ends at the step that has just returned, with stop set
StopsHere ==
    /\ stop'
    /\ pc' = "idle"
    /\ Len(errors') = Len(errors) + 1

\* The routine run ends with an exception instead of a return value
Raises == job_ret' \in {"TypeError", "MessengerError"}

\* C12: a step that returns with a PumpTimeoutError and has proceed_on_timeout
\* false sets stop and ends the routine run, no later step is run, and with
\* cancel_on_critical_failure the run, when it returns, returns CancelJob; with
\* proceed_on_timeout true a result whose only fault is the timeout does not
\* set stop, and the next step is run
C12_TimeoutStops ==
    [][(Handled /\ HasFault(step_ret, "PumpTimeoutError")) =>
          IF ~flags["proceed_on_timeout"]
          THEN /\ StopsHere
               /\ (flags["cancel_on_critical_failure"] /\ ~Raises)
                     => job_ret' = "CancelJob"
          ELSE ~HasFault(step_ret, "ErrorSensorTriggered") => GoesOn]_vars

\* The first step timed out, the run stopped there and returned CancelJob
C12_Witness ==
    /\ pc = "idle"
    /\ stop
    /\ job_ret = "CancelJob"
    /\ ~flags["proceed_on_timeout"]
    /\ Len(errors) = 1
    /\ Len(Steps) > 1
    /\ \E i \in DOMAIN errors[1] : errors[1][i].kind = "PumpTimeoutError"
    /\ \A i \in DOMAIN errors[1] : errors[1][i].kind # "ErrorSensorTriggered"

\* The step's result holds an ErrorSensorTriggered with no run remaining
HasExhausted(r) ==
    /\ r.kind = "tuple"
    /\ \E i \in DOMAIN r.errs :
          r.errs[i].kind = "ErrorSensorTriggered" /\ r.errs[i].remaining_runs <= 0

\* The timeout, if the result holds one, does not set stop
TimeoutProceeds ==
    HasFault(step_ret, "PumpTimeoutError") => flags["proceed_on_timeout"]

\* C13: a step that ran and returned an ErrorSensorTriggered whose
\* remaining_runs is <= 0 sets stop and ends the routine run if its
\* proceed_on_error is false; if it is true the fault does not set stop, and
\* unless a timeout does the routine goes on
C13_ExhaustedStops ==
    [][(Handled /\ HasExhausted(step_ret)) =>
          IF ~flags["proceed_on_error"] THEN StopsHere
          ELSE TimeoutProceeds => GoesOn]_vars

\* A run was stopped by an exhausted error check alone
C13_Witness ==
    /\ pc = "idle"
    /\ stop
    /\ ~flags["proceed_on_error"]
    /\ errors # <<>>
    /\ LET last_errs == errors[Len(errors)] IN
       /\ \E i \in DOMAIN last_errs :
             /\ last_errs[i].kind = "ErrorSensorTriggered"
             /\ last_errs[i].remaining_runs <= 0
       /\ \A i \in DOMAIN last_errs : last_errs[i].kind # "PumpTimeoutError"

\* The step's result holds ErrorSensorTriggered faults, all with runs remaining
HasUnexhaustedOnly(r) ==
    /\ HasFault(r, "ErrorSensorTriggered")
    /\ ~HasExhausted(r)

\* Every ErrorSensorTriggered of the step's result is in the last entry of the
\* fault list and among the error reports queued for the step
Recorded ==
    \A i \in DOMAIN step_ret.errs :
       step_ret.errs[i].kind = "ErrorSensorTriggered" =>
          /\ \E j \in DOMAIN errors'[Len(errors')] :
                errors'[Len(errors')][j] = step_ret.errs[i]
          /\ \E k \in (Len(error_reports) + 1)..Len(error_reports') :
                error_reports'[k] = step_ret.errs[i]

\* C14: a step that returned ErrorSensorTriggered faults whose remaining_runs
\* are all > 0 does not set stop through them, whatever proceed_on_error is:
\* unless a timeout stops the routine, the next step is run and the run does not
\* return CancelJob; the faults are in the routine's fault list and error reports
C14_UnexhaustedGoesOn ==
    [][(Handled /\ HasUnexhaustedOnly(step_ret)) =>
          /\ Recorded
          /\ TimeoutProceeds => GoesOn]_vars

\* The first step returned a fault with runs remaining and proceed_on_error
\* false, and the second step was run
C14_Witness ==
    /\ pc \in {"routine", "loop"}
    /\ stepIdx = 2
    /\ ~flags["proceed_on_error"]
    /\ ~stop
    /\ errors # <<>>
    /\ LET last_errs == errors[Len(errors)] IN
       /\ last_errs # <<>>
       /\ \A i \in DOMAIN last_errs :
             /\ last_errs[i].kind = "ErrorSensorTriggered"
             /\ last_errs[i].remaining_runs > 0
       /\ \E k \in DOMAIN error_reports : error_reports[k] = last_errs[1]

C16_InvalidStartFlags ==
    [][(Handled /\ step_ret.kind = "InitialStateError") =>
          /\ Len(error_reports') = Len(error_reports) + 1
                <=> flags["report_invalid_start"]
          /\ stop' <=> ~flags["proceed_on_invalid_start"]]_vars

\* Controller.run_routine returns
Returns == Handled /\ driver = "Controller.run_routine" /\ pc' = "idle"

HoldsAll(id, q) == \A k \in DOMAIN q : q[k] \in tags[id]

\* C18: for every tag list, get_jobs_from_tags returns exactly the jobs of the
\* scheduler that hold every tag of the list, and with one more tag in the list
\* it returns a subset of that
C18_Intersection ==
    \A q \in Queries :
       /\ GetJobsFromTags(q).kind = "list"
       /\ GetJobsFromTags(q).jobs = {id \in Ids(jobs) : HoldsAll(id, q)}
       /\ \A t \in Tags :
             GetJobsFromTags(Append(q, t)).jobs \subseteq GetJobsFromTags(q).jobs

\* A lookup by two tags has returned a job and left out one that holds only
\* the first of the tags
C18_Witness ==
    /\ Len(query) = 2
    /\ found = GetJobsFromTags(query)
    /\ found.jobs # {}
    /\ \E id \in Ids(jobs) \ found.jobs :
          query[1] \in tags[id] /\ query[2] \notin tags[id]

\* C19 as stated: when highest_priority (or lowest_priority) is accessed on a
\* job twice in succession, with the jobs as the first access left them, the
\* job's priority after the second access is its priority after the first
C19_Idempotent ==
    [][(/\ lastSet.op # "none"
        /\ lastSet' # lastSet
        /\ lastSet'.op = lastSet.op
        /\ lastSet'.id = lastSet.id
        /\ ~lastSet.raised /\ ~lastSet'.raised
        /\ lastSet.jobs = jobs
        /\ lastSet.unscheduled = unscheduled)
       => lastSet'.priority = lastSet.priority]_vars

\* C20 as stated: no exception of a job function leaves run_pending, and none
\* keeps another due job of the pass from being run
C20_CaughtAtBoundary ==
    /\ raised.id = 0
    /\ raised.skipped = {}

\* C21 as stated: a notify call whose delivery fails never ends with an
\* exception; it returns after inserting a run_once retry job
C21_FailureNeverAborts ==
    notified # "raised"

\* C29 as stated: a step whose pump was turned on returns an elapsed time above
\* zero, also when the end state already holds at the first test of the loop
C29_StartedElapsedPositive ==
    (pc = "returned" /\ turnedOn) => step_ret.run_time > 0

\* An error check of the running step is found triggered with no runs left
ExhaustedIn(e) ==
    \E i \in DOMAIN e :
        e[i].kind = "ErrorSensorTriggered" /\ e[i].remaining_runs <= 0

\* C30 as stated: a polling tick that finds an error check triggered with
\* remaining_runs <= 0 is the last of the loop: the pump is turned off and the
\* step returns with that fault in its list
C30_ExhaustedEndsLoop ==
    [][(PollingTick /\ (ExhaustedIn(errs') \/ HasExhausted(step_ret')))
          => /\ pc' = "returned"
             /\ ~pumps'[CurrentStep.pump]
             /\ HasExhausted(step_ret')]_vars

\* process_remote takes up a command of the given kind in this step
Processes(cmd) == reply'.n # reply.n /\ reply'.cmd = cmd

\* process_remote calls the command's function in this step
Called(cmd) == Processes(cmd) /\ reply'.result # "ignored"

\* C22: a run command that does not succeed, be it by an invalid time of day,
\* weekday or interval specification, inserts no job: the scheduler's jobs and
\* their tags are after it what they were before
C22_FailedRunInsertsNothing ==
    [][(Processes("run") /\ reply'.result # "True")
          => (jobs' = jobs /\ tags' = tags /\ created' = created)]_vars

C22_Witness ==
    /\ reply.cmd = "run"
    /\ reply.result = "ScheduleValueError"
    /\ reply.args.at = "29:00:00"
    /\ jobs # <<>>

\* The time of day of an --at string, in minutes
TimeOfDay(string) == AtFields[string].hour * 60 + AtFields[string].minute

\* C24 as stated: after `run <routine> --at HH:MM:SS` for a registered routine
\* is processed, some job holds the routine's name as a tag, and each job that
\* does is due at the next occurrence of that time of day
C24_RunAtSchedules ==
    [][(/\ Processes("run")
        /\ reply'.args.routine \in Routines
        /\ reply'.args.on = ""
        /\ reply'.args.at \in {"00:00:00", "00:01:00"})
          => LET tagged == {k \in DOMAIN jobs' :
                               reply'.args.routine \in tags'[jobs'[k].id]}
             IN
             /\ tagged # {}
             /\ \A k \in tagged :
                   jobs'[k].next_run
                      = NextOccurrence(TimeOfDay(reply'.args.at), Day, now)]_vars

\* The tags of the command match exactly one job of the scheduler
MatchesOne(q) == Cardinality(GetJobsFromTags(q).jobs) = 1

\* The one job the tags match
Matched(q) == CHOOSE j \in GetJobsFromTags(q).jobs : TRUE

\* next_run of job id after this step
NextRunAfterStep(id) ==
    LET i == CHOOSE k \in DOMAIN jobs' : jobs'[k].id = id IN jobs'[i].next_run

\* C25 as stated: pause --until, when the tags match exactly one job and the
\* time is later than the job's next_run, sets next_run to the parsed time
C25_PauseUntilSets ==
    [][(/\ Called("pause")
        /\ reply'.args.until # <<>>
        /\ MatchesOne(reply'.args.job_tags)
        /\ NextRunOfJob(Matched(reply'.args.job_tags))
              < DtParse(reply'.args.until, now).value)
          => NextRunAfterStep(Matched(reply'.args.job_tags))
                = DtParse(reply'.args.until, now).value]_vars

\* The sum of the interval/unit pairs i1 u1 ... iN uN, in minutes
RECURSIVE PairsSum(_)
PairsSum(terms) ==
    IF Len(terms) < 2 THEN 0
    ELSE Numerals[terms[1]] * JobUnits[terms[2]] + PairsSum(SubSeq(terms, 3, Len(terms)))

\* C26 as stated: pause --for, when the tags match exactly one job, moves the
\* job's next_run later by the sum of the given pairs
C26_PauseForAddsSum ==
    [][(/\ Called("pause")
        /\ reply'.args["for"] # <<>>
        /\ MatchesOne(reply'.args.job_tags))
          => NextRunAfterStep(Matched(reply'.args.job_tags))
                = NextRunOfJob(Matched(reply'.args.job_tags))
                     + PairsSum(reply'.args["for"])]_vars

\* C27 as stated: cancel, when the tags match exactly one job, removes that job
\* and reports success; else it leaves the jobs as they are
C27_CancelRemovesTheOne ==
    [][Called("cancel")
          => IF MatchesOne(reply'.args.job_tags)
             THEN /\ jobs' = Remove(jobs, Matched(reply'.args.job_tags))
                  /\ reply'.result = "True"
             ELSE jobs' = jobs]_vars

\* Scheduler._run_job runs the next job of the pass in this step
JobRuns == inPass /\ pending # <<>> /\ pending' = Tail(pending) /\ last' # NoRun

C23_NoTornRead ==
    reader.pc = "done" => reader.result \in reader.allowed

\* C31: every started step run ends. While the clock advances, the polling loop
\* is left no later than the first pass at whose end the elapsed time has
\* reached max_time, whatever the sensors report: a run still in its loop after
\* a pass has an elapsed time below max_time, and every run in its loop returns
C31_StepTerminates ==
    /\ [](pc = "loop" /\ ticks > 0 => run_time < Steps[stepIdx].max_time)
    /\ (pc = "loop") ~> (pc = "returned")

\* A run that ended by the time limit alone: the end state was never reached and
\* the tank state was ambiguous when the run returned
C31_Witness ==
    /\ pc = "returned"
    /\ turnedOn
    /\ HasFault(step_ret, "PumpTimeoutError")
    /\ step_ret.run_time >= Steps[stepIdx].max_time
    /\ TankState(tank_states) = "CheckError"

\* The number of PumpTimeoutErrors in the fault list of a step run's result
TimeoutFaults(r) ==
    IF r.kind = "tuple"
    THEN Cardinality({i \in DOMAIN r.errs : r.errs[i].kind = "PumpTimeoutError"})
    ELSE 0

\* C32: the fault list a step run returns holds exactly one PumpTimeoutError if
\* the loop was left because the elapsed time had reached max_time, and none if
\* it was left because the end state was reached; it never holds two
C32_OneTimeoutFault ==
    [][(pc = "loop" /\ pc' = "returned") =>
          IF TankState(tank_states) = Steps[stepIdx].end_state
          THEN TimeoutFaults(step_ret') = 0
          ELSE /\ step_ret'.run_time >= Steps[stepIdx].max_time
               /\ TimeoutFaults(step_ret') = 1]_vars

\* A run left by the time limit that also returns an error sensor's fault
C32_Witness ==
    /\ pc = "returned"
    /\ turnedOn
    /\ TimeoutFaults(step_ret) = 1
    /\ HasFault(step_ret, "ErrorSensorTriggered")

\* C33 as stated: the fault list a step run returns holds the result of every
\* error check that was found triggered at a poll of that run, also of a check
\* whose condition has cleared by the time the run ends
C33_TriggeredIsReported ==
    [][(pc = "loop" /\ pc' = "returned") =>
          \A i \in DOMAIN errs :
             Truthy(errs[i]) =>
                /\ step_ret'.kind = "tuple"
                /\ \E k \in DOMAIN step_ret'.errs :
                      /\ step_ret'.errs[k].kind = "ErrorSensorTriggered"
                      /\ step_ret'.errs[k].name = errs[i].name]_vars

\* C34: the steps of a routine run in list order and one at a time. A run starts
\* at the first step and goes from a step to the next one only; once a step has
\* set stop no step is attempted; a pump is turned on only for the current step,
\* while no pump is on and stop is not set
C34_StepsInOrder ==
    [][/\ stepIdx' # stepIdx => stepIdx' = 0 \/ (stepIdx' = stepIdx + 1 /\ ~stop')
       /\ stop' => stepIdx' = 0 /\ pc' = "idle"
       /\ pumps' # pumps =>
             \/ pumps' = [p \in Pumps |-> FALSE]
             \/ /\ pumps = [p \in Pumps |-> FALSE]
                /\ pumps' = [pumps EXCEPT ![Steps[stepIdx].pump] = TRUE]
                /\ stepIdx' = stepIdx
                /\ ~stop]_vars

\* The second step runs its pump after the first step was attempted and did not
\* set stop
C34_Witness ==
    /\ stepIdx = 2
    /\ pc = "loop"
    /\ pumps["fill_pump"]
    /\ ~pumps["drain_pump"]
    /\ errors # <<>>

\* C35 as stated: a Routine's result buffer is empty at the start of every
\* execution, so it never holds results of an earlier run
C35_BufferFreshEachRun ==
    (pc = "routine" /\ stepIdx = 1) => (errors = <<>> /\ error_reports = <<>>)

\* C36: after lowest_priority on a job its priority value is above that of every
\* other job of the scheduler (after highest_priority, below), so that it
\* compares after (before) each of them that has the same next_run; the access
\* changes no job's next_run, no other job's priority, no membership and no tag
C36_ExtremeAndFrame ==
    [][lastSet' # lastSet =>
          LET id == lastSet'.id
              lowest == lastSet'.op = "lowest_priority"
              p == IF unscheduled' # NoJob /\ unscheduled'.id = id
                   THEN unscheduled'.priority
                   ELSE LET i == CHOOSE k \in DOMAIN jobs' : jobs'[k].id = id
                        IN jobs'[i].priority
          IN
          /\ \A k \in DOMAIN jobs' :
                jobs'[k].id # id =>
                   /\ IF lowest THEN p > jobs'[k].priority ELSE p < jobs'[k].priority
                   /\ \A m \in DOMAIN jobs' :
                         (jobs'[m].id = id /\ jobs'[m].next_run = jobs'[k].next_run) =>
                            IF lowest
                            THEN Lt(jobs'[k], jobs'[m]) /\ ~Lt(jobs'[m], jobs'[k])
                            ELSE Lt(jobs'[m], jobs'[k]) /\ ~Lt(jobs'[k], jobs'[m])
          /\ Len(jobs') = Len(jobs)
          /\ \A k \in DOMAIN jobs :
                /\ jobs'[k].id = jobs[k].id
                /\ jobs'[k].next_run = jobs[k].next_run
                /\ jobs[k].id # id => jobs'[k] = jobs[k]
          /\ unscheduled'.id = unscheduled.id
          /\ unscheduled.id # id => unscheduled' = unscheduled
          /\ tags' = tags]_vars

\* lowest_priority was accessed on a scheduled job beside another scheduled job
C36_Witness ==
    /\ lastSet.op = "lowest_priority"
    /\ ~lastSet.raised
    /\ Len(jobs) = 2
    /\ lastSet.id \in Ids(jobs)
    /\ lastSet.jobs = jobs
    /\ \A k \in DOMAIN jobs : jobs[k].id # lastSet.id => jobs[k].priority < lastSet.priority

\* (next_run, priority) of the first job is lexicographically below that of the
\* second, with next_run None counted as later than every time
LexBelow(a, b) ==
    LET ta == IF a.next_run = NoneTime THEN MaxTime + 1 ELSE a.next_run
        tb == IF b.next_run = NoneTime THEN MaxTime + 1 ELSE b.next_run
    IN ta < tb \/ (ta = tb /\ a.priority < b.priority)

\* C37 as stated: the job comparison is the lexicographic order on
\* (next_run, priority), with a job whose next_run is None after every
\* scheduled job
C37_Lexicographic ==
    operands # <<>> =>
       \A i \in 1..3, k \in 1..3 :
          operands.lt[i][k] <=> LexBelow(operands.jobs[i], operands.jobs[k])

\* C37: the job comparison is a strict weak order (irreflexive, asymmetric,
\* transitive, with transitive incomparability). Scheduled jobs are ordered
\* lexicographically on (next_run, priority), a job whose next_run is None
\* compares after every scheduled job, jobs with equal (next_run, priority) are
\* unordered in both directions, and so are two jobs whose next_run is None,
\* whatever their priorities
C37_StrictWeakOrder ==
    operands # <<>> =>
       LET J == operands.jobs
           lt == operands.lt
           unordered(i, k) == ~lt[i][k] /\ ~lt[k][i]
       IN
       \A i \in 1..3, k \in 1..3 :
          /\ ~lt[i][i]
          /\ lt[i][k] => ~lt[k][i]
          /\ \A m \in 1..3 :
                /\ (lt[i][k] /\ lt[k][m]) => lt[i][m]
                /\ (unordered(i, k) /\ unordered(k, m)) => unordered(i, m)
          /\ (J[i].next_run # NoneTime /\ J[k].next_run # NoneTime) =>
                (lt[i][k] <=> LexBelow(J[i], J[k]))
          /\ (J[i].next_run # NoneTime /\ J[k].next_run = NoneTime) =>
                (lt[i][k] /\ ~lt[k][i])
          /\ (J[i].next_run = NoneTime /\ J[k].next_run = NoneTime) => unordered(i, k)
          /\ J[i] = J[k] => unordered(i, k)

\* A never scheduled job was compared with two jobs scheduled for the same time
\* that differ in priority
C37_Witness ==
    /\ operands # <<>>
    /\ operands.jobs[1].next_run = NoneTime
    /\ operands.jobs[2].next_run = operands.jobs[3].next_run
    /\ operands.jobs[2].next_run # NoneTime
    /\ operands.jobs[2].priority < operands.jobs[3].priority
    /\ operands.lt[2][3]
    /\ operands.lt[3][1]

\* C38 as stated: under every interleaving of the sensors' callbacks with
\* check_error calls, an error sensor that is not triggered has its full budget,
\* remaining_runs = permitted_runs
C38_ClearedHasFullBudget ==
    \A e \in ErrorSensors :
       ~error_checks[e] => remaining_runs[e] = PermittedRunsOf(e)

\* The retry jobs of the scheduler that carry notification n
RetriesOf(js, n) ==
    {k \in DOMAIN js : "notification" \in DOMAIN js[k] /\ js[k].notification = n}

\* C39 as stated: a retry job is removed after it runs; its run inserts no new
\* job when delivery succeeds and exactly one new retry job when it fails
\* again, so that a notification never has more than one pending retry job
C39_RetryReplacedOrGone ==
    [][(inPass /\ pending # <<>> /\ pending' # pending
        /\ "notification" \in DOMAIN Head(pending))
       => LET j == Head(pending) IN
          /\ j.id \notin Ids(jobs')
          /\ Cardinality(RetriesOf(jobs', j.notification))
                = IF notified' = "sent" THEN 0 ELSE 1
          /\ Cardinality(RetriesOf(jobs, j.notification)) = 1]_vars

\* C40: a pause request that fails reports the failure and changes nothing:
\* when the tags match more than one job, when the delay of --for cannot be
\* read, or when the time of --until is not later than the job's next_run,
\* the command called does not answer True, and after every pause command
\* that does not answer True the jobs (their next_run, priority, order and
\* number) and their tags are what they were before
C40_FailedPauseChangesNothing ==
    [][Processes("pause") =>
          LET args == reply'.args
              matches == GetJobsFromTags(args.job_tags).jobs
              one == CHOOSE j \in matches : TRUE
              until == DtParse(args.until, now)
          IN
          /\ reply'.result # "True"
                => (jobs' = jobs /\ tags' = tags /\ created' = created)
          /\ (Called("pause") /\ Cardinality(matches) > 1)
                => reply'.result = "False"
          /\ (/\ Called("pause")
              /\ Cardinality(matches) = 1
              /\ \/ args["for"] # <<>> /\ DelayFor(args["for"], 0).result # "job"
                 \/ /\ args.until # <<>>
                    /\ \/ until.result # "datetime"
                       \/ /\ NextRunOfJob(one) # NoneTime
                          /\ NextRunOfJob(one) >= until.value)
                => reply'.result # "True"]_vars

C40_Witness ==
    /\ reply.cmd = "pause"
    /\ reply.result = "False"
    /\ Cardinality(GetJobsFromTags(reply.args.job_tags).jobs) > 1
    /\ \E k \in DOMAIN jobs : jobs[k].next_run # NoneTime

====
